---- MODULE Spec2Model ----
(***************************************************************************)
(* Task tracker with live push notifications.                              *)
(*                                                                         *)
(*   backend/controllers/taskController.js   task mutation handlers        *)
(*   backend/controllers/userController.js   deleteUser (bulk reassign)    *)
(*   backend/models/Task.js                  schema, audit helper, hooks   *)
(*   backend/routes/users.js (l. 23-198)     WebSocketServer registry      *)
(*   frontend/src/hooks/useWebSocket.js      client reconnection hook      *)
(*                                                                         *)
(* The client hook never sends a message, so handleMessage (the reply to a  *)
(* client PING) never runs and is left out.                                *)
(*                                                                         *)
(* Every handler is an async function: it runs without interruption        *)
(* between two awaits, so one action is the code from one await to the     *)
(* next, and the position of each request in flight is its pc.             *)
(***************************************************************************)
EXTENDS Integers, Sequences, FiniteSets, TLC

VARIABLES
  users,      \* ids of the User documents in the store
  tasks,      \* the Task collection: task id -> persisted document
  reqs,       \* the REST requests in flight: slot -> handler frame
  now,        \* the clock read by new Date()
  ops,        \* number of requests accepted so far
  last,       \* the most recent HTTP response
  clients,    \* WebSocketServer.clients: user id -> set of connections
  conn,       \* per connection: handshake position, readyState, userId, isAlive
  inbox,      \* per connection: the messages sent on it, in order
  sends,      \* number of registry-side steps taken (handshakes, pushes, sweeps)
  hook        \* the useWebSocket hook instance of one mounted component

vars == <<users, tasks, reqs, now, ops, last, clients, conn, inbox, sends, hook>>
taskVars == <<users, tasks, reqs, now, ops, last>>
wsVars == <<clients, conn, inbox, sends>>

\* ------------------------------------------------------------------ bounds
MaxOps == 2

\* ------------------------------------------------------------------ domains
UserIds == {"u1", "u2", "u3"}
InitialUsers == {"u1", "u2"}
TaskIds == {1, 2}
Slots == {1, 2}
Conns == {"c1", "c2", "c3"}
Undefined == "undefined"

StatusValues == {"To Do", "In Progress", "Completed"}
PriorityValues == {"High", "Medium", "Low"}
Fields == {"title", "description", "dueDate", "priority", "status", "tags"}

\* A request body of PUT /api/tasks/:id: has = the keys present in it.
Patch(has, title, description, dueDate, priority, status, tags) ==
  [has |-> has, title |-> title, description |-> description, dueDate |-> dueDate,
   priority |-> priority, status |-> status, tags |-> tags]

OneField(f, v) ==
  Patch({f},
        IF f = "title" THEN v ELSE Undefined,
        IF f = "description" THEN v ELSE Undefined,
        0,
        IF f = "priority" THEN v ELSE Undefined,
        IF f = "status" THEN v ELSE Undefined,
        <<>>)

\* The request bodies tried: each field alone where a claim is about it, and patches
\* that combine a status change with other fields.
Patches ==
  {OneField("status", "Completed"), OneField("status", "In Progress"),
   OneField("priority", "High"),
   Patch({"tags"}, Undefined, Undefined, 0, Undefined, Undefined, <<"x">>),
   Patch(Fields \ {"tags"}, "B", "D", 2, "Low", "To Do", <<>>),
   Patch({"status", "tags"}, Undefined, Undefined, 0, Undefined, "Completed", <<"x">>)}

\* ------------------------------------------------------------------ Task.js
\* auditSchema: one entry of auditHistory.
AuditEntry(userId, action, field, oldValue, newValue, description) ==
  [user |-> userId, action |-> action, field |-> field, oldValue |-> oldValue,
   newValue |-> newValue, description |-> description]

\* taskSchema.methods.addAuditEntry: push on the in-memory document.
addAuditEntry(doc, userId, action, field, oldValue, newValue, description) ==
  [doc EXCEPT !.auditHistory =
     Append(@, AuditEntry(userId, action, field, oldValue, newValue, description))]

\* The document Task.create builds from the request body and the schema defaults.
NewTask(title, assignedTo, createdBy, dueDate, priority) ==
  [title |-> title, description |-> Undefined, assignedTo |-> assignedTo,
   createdBy |-> createdBy, status |-> "To Do", priority |-> priority,
   dueDate |-> dueDate, tags |-> <<>>, attachments |-> <<>>, comments |-> <<>>,
   auditHistory |-> <<>>, completedAt |-> 0, isDeleted |-> FALSE, v |-> 0]

\* A hook that stamps completedAt on every save of a Completed document.
PreSaveStampAlways(doc) ==
  IF doc.status = "Completed" THEN [doc EXCEPT !.completedAt = now + 1] ELSE doc

PreSaveStampsEverySave(doc, base, hasOriginal, statusModified) ==
  IF statusModified /\ hasOriginal /\ base.status = "Completed" /\ doc.status # "Completed"
    THEN [error |-> TRUE, doc |-> doc]
    ELSE [error |-> FALSE, doc |-> PreSaveStampAlways(doc)]

\* A hook that never stamps completedAt.
PreSaveStampSkipped(doc) == doc

\* taskSchema.pre('save'): base is the document as loaded (this._original, set by
\* post('init')); a document built by Task.create has none.  Returns the error flag
\* and the document after the hook.
PreSaveStamp(doc) ==
  IF doc.status = "Completed" /\ doc.completedAt = 0
    THEN [doc EXCEPT !.completedAt = now + 1]
    ELSE doc

PreSave(doc, base, hasOriginal, statusModified) ==
  IF statusModified
    THEN IF hasOriginal /\ base.status = "Completed" /\ doc.status # "Completed"
           THEN [error |-> TRUE, doc |-> doc]
           ELSE [error |-> FALSE, doc |-> PreSaveStamp(doc)]
    ELSE [error |-> FALSE, doc |-> doc]

\* What document.save() writes: the paths that differ from the loaded document are
\* $set, array pushes are $push (pulls $pull) on the stored array.  Replacing a whole
\* array (tags) makes the write conditional on the stored version; every array
\* operation increments the version.
Suffix(s, n) == SubSeq(s, n + 1, Len(s))
SeqRange(s) == {s[i] : i \in 1..Len(s)}
RECURSIVE Without(_, _)
Without(s, gone) ==
  IF s = <<>> THEN <<>>
  ELSE IF Head(s) \in gone THEN Without(Tail(s), gone)
  ELSE <<Head(s)>> \o Without(Tail(s), gone)

PushedAudit(base, doc) == Suffix(doc.auditHistory, Len(base.auditHistory))
PushedComments(base, doc) == Suffix(doc.comments, Len(base.comments))
PushedAttachments(base, doc) == Without(doc.attachments, SeqRange(base.attachments))
PulledAttachments(base, doc) == SeqRange(base.attachments) \ SeqRange(doc.attachments)

NeedsVersionMatch(base, doc) == doc.tags # base.tags

ArrayTouched(base, doc) ==
  \/ doc.tags # base.tags
  \/ PushedAudit(base, doc) # <<>>
  \/ PushedComments(base, doc) # <<>>
  \/ PushedAttachments(base, doc) # <<>>
  \/ PulledAttachments(base, doc) # {}

SetPath(stored, base, doc) ==
  [stored EXCEPT
     !.title = IF doc.title # base.title THEN doc.title ELSE @,
     !.description = IF doc.description # base.description THEN doc.description ELSE @,
     !.dueDate = IF doc.dueDate # base.dueDate THEN doc.dueDate ELSE @,
     !.priority = IF doc.priority # base.priority THEN doc.priority ELSE @,
     !.status = IF doc.status # base.status THEN doc.status ELSE @,
     !.assignedTo = IF doc.assignedTo # base.assignedTo THEN doc.assignedTo ELSE @,
     !.completedAt = IF doc.completedAt # base.completedAt THEN doc.completedAt ELSE @,
     !.isDeleted = IF doc.isDeleted # base.isDeleted THEN doc.isDeleted ELSE @,
     !.tags = IF doc.tags # base.tags THEN doc.tags ELSE @]

\* A save that writes the arrays of the in-memory document whole.
WrittenWholeArrays(stored, base, doc) ==
  [SetPath(stored, base, doc) EXCEPT
     !.auditHistory = doc.auditHistory,
     !.comments = doc.comments,
     !.attachments = doc.attachments,
     !.v = IF ArrayTouched(base, doc) THEN @ + 1 ELSE @]

Written(stored, base, doc) ==
  [SetPath(stored, base, doc) EXCEPT
     !.auditHistory = @ \o PushedAudit(base, doc),
     !.comments = @ \o PushedComments(base, doc),
     !.attachments = Without(@, PulledAttachments(base, doc)) \o PushedAttachments(base, doc),
     !.v = IF ArrayTouched(base, doc) THEN @ + 1 ELSE @]

\* document.save() of doc, loaded as base, against the stored document.
Save(stored, base, doc) ==
  IF NeedsVersionMatch(base, doc) /\ stored.v # base.v
    THEN [ok |-> FALSE, task |-> stored]
    ELSE [ok |-> TRUE, task |-> Written(stored, base, doc)]

\* The outcome of `await task.save()`: the pre-save hook, then the write.
SaveOutcome(stored, base, doc, hasOriginal, statusModified) ==
  LET h == PreSave(doc, base, hasOriginal, statusModified)
      w == Save(stored, base, h.doc)
  IN IF h.error THEN [code |-> 400, task |-> stored, doc |-> doc]
     ELSE IF ~w.ok THEN [code |-> 500, task |-> stored, doc |-> doc]
     ELSE [code |-> 200, task |-> w.task, doc |-> h.doc]

\* ------------------------------------------------------------------ taskController.js
Truthy(x) == x # Undefined /\ x # ""
RevertMessage == "Cannot revert status from Completed"
NotFoundMessage == "Task not found or access denied"

\* A query without the assignedTo condition.
FindAnyTask(tid, actor) ==
  /\ tid \in DOMAIN tasks
  /\ ~tasks[tid].isDeleted

\* Task.findOne({_id, assignedTo: req.user.id, isDeleted: false})
FindOwnTask(tid, actor) ==
  /\ tid \in DOMAIN tasks
  /\ tasks[tid].assignedTo = actor
  /\ ~tasks[tid].isDeleted

\* The setter of a String path declared with trim: true (title, description, each
\* tag): an assignment stores the value without its surrounding whitespace.
Trim(x) ==
  IF x = " A " THEN "A" ELSE IF x = " B " THEN "B" ELSE IF x = " D " THEN "D" ELSE x

\* updateTask, the field comparisons in their order; st = [doc, changes]. The
\* comparison is on the value of the request body, the assignment goes through the
\* setter of the path.
StepTitle(st, p) ==
  IF "title" \in p.has /\ Truthy(p.title) /\ p.title # st.doc.title
    THEN [doc |-> [st.doc EXCEPT !.title = Trim(p.title)],
          changes |-> Append(st.changes, "title")]
    ELSE st

StepDescription(st, p) ==
  IF "description" \in p.has /\ p.description # st.doc.description
    THEN [doc |-> [st.doc EXCEPT !.description = Trim(p.description)],
          changes |-> Append(st.changes, "description")]
    ELSE st

StepDueDate(st, p) ==
  IF "dueDate" \in p.has /\ p.dueDate # 0 /\ p.dueDate # st.doc.dueDate
    THEN [doc |-> [st.doc EXCEPT !.dueDate = p.dueDate],
          changes |-> Append(st.changes, "dueDate")]
    ELSE st

\* A priority change without its dedicated entry.
StepPriorityNoEntry(st, p, actor) ==
  IF "priority" \in p.has /\ Truthy(p.priority) /\ p.priority # st.doc.priority
    THEN [doc |-> [st.doc EXCEPT !.priority = p.priority],
          changes |-> Append(st.changes, "priority")]
    ELSE st

StepPriority(st, p, actor) ==
  IF "priority" \in p.has /\ Truthy(p.priority) /\ p.priority # st.doc.priority
    THEN [doc |-> [addAuditEntry(st.doc, actor, "priority_changed", "priority",
                                 st.doc.priority, p.priority, <<>>)
                     EXCEPT !.priority = p.priority],
          changes |-> Append(st.changes, "priority")]
    ELSE st

StatusDiffers(doc, p) ==
  "status" \in p.has /\ Truthy(p.status) /\ p.status # doc.status

\* The controller's own guard: return 400 before anything is saved.
RevertRejected(doc, p) ==
  StatusDiffers(doc, p) /\ doc.status = "Completed" /\ p.status # "Completed"

StepStatus(st, p, actor) ==
  IF StatusDiffers(st.doc, p)
    THEN [doc |-> [addAuditEntry(st.doc, actor, "status_changed", "status",
                                 st.doc.status, p.status, <<>>)
                     EXCEPT !.status = p.status],
          changes |-> Append(st.changes, "status")]
    ELSE st

\* A tags step that keeps the tags the task had.
StepTagsMerges(st, p) ==
  IF "tags" \in p.has
    THEN [st EXCEPT !.doc.tags = @ \o [i \in 1..Len(p.tags) |-> Trim(p.tags[i])]]
    ELSE st

StepTags(st, p) ==
  IF "tags" \in p.has
    THEN [st EXCEPT !.doc.tags = [i \in 1..Len(p.tags) |-> Trim(p.tags[i])]]
    ELSE st

StepSummary(st, actor) ==
  IF st.changes # <<>>
    THEN [st EXCEPT !.doc = addAuditEntry(@, actor, "updated", Undefined, Undefined,
                                          Undefined, <<"Updated:">> \o st.changes)]
    ELSE st

\* updateTask from the destructuring of req.body to the call of task.save().
ApplyUpdate(base, p, actor) ==
  LET s0 == [doc |-> base, changes |-> <<>>]
      s4 == StepPriority(StepDueDate(StepDescription(StepTitle(s0, p), p), p), p, actor)
      s7 == StepSummary(StepTags(StepStatus(s4, p, actor), p), actor)
  IN [rejected |-> RevertRejected(s4.doc, p), doc |-> s7.doc, changes |-> s7.changes]

\* ------------------------------------------------------------------ requests
Idle == [kind |-> "idle", pc |-> "idle"]

\* The next free handler frame (which frame a request gets is not program state).
FreeSlot(s) == reqs[s] = Idle /\ \A t \in Slots : t < s => reqs[t] # Idle

Accept(s, actor) == FreeSlot(s) /\ ops < MaxOps /\ actor \in users /\ ops' = ops + 1

\* res.status(code).json({success, message, taskCount})
\* What the request asked for, kept with its response.
Ask(actor, target, reassignTo, has) ==
  [actor |-> actor, target |-> target, reassignTo |-> reassignTo, has |-> has]

Respond(kind, tid, ask, code, message, taskCount) ==
  last' = [n |-> last.n + 1, kind |-> kind, tid |-> tid, ask |-> ask, code |-> code,
           message |-> message, taskCount |-> taskCount]

Finish(s) == reqs' = [reqs EXCEPT ![s] = Idle]

\* A broadcast that does not look at readyState.
broadcastToUserUnchecked(userId, message) ==
  [c \in Conns |->
     IF userId \in DOMAIN clients /\ c \in clients[userId]
       THEN Append(inbox[c], message)
       ELSE inbox[c]]

\* A broadcastToUser whose message overtakes the ones sent before.
broadcastToUserPrepends(userId, message) ==
  [c \in Conns |->
     IF userId \in DOMAIN clients /\ c \in clients[userId] /\ conn[c].readyState = "OPEN"
       THEN <<message>> \o inbox[c]
       ELSE inbox[c]]

\* WebSocketServer.broadcastToUser: the inboxes after the send.
broadcastToUser(userId, message) ==
  [c \in Conns |->
     IF userId \in DOMAIN clients /\ c \in clients[userId] /\ conn[c].readyState = "OPEN"
       THEN Append(inbox[c], message)
       ELSE inbox[c]]

TaskEvent(type, tid) == [type |-> type, tid |-> tid]

Tick(outcome, base) ==
  now' = IF outcome.code = 200 /\ outcome.task.completedAt > now THEN now + 1 ELSE now

\* ---- createTask
\* status is the status key of the request body, which the handler does not read.
CreateTaskFindUser(s, actor, assignedTo, priority, status) ==
  /\ Accept(s, actor)
  /\ Cardinality(DOMAIN tasks) + Cardinality({t \in Slots : reqs[t].kind = "create"}) < Cardinality(TaskIds)
  /\ IF assignedTo \in users
       THEN /\ reqs' = [reqs EXCEPT ![s] = [kind |-> "create", pc |-> "insert", actor |-> actor,
                                            ask |-> Ask(actor, assignedTo, Undefined,
                                                        IF Truthy(status) THEN {"status"} ELSE {}),
                                            assignedTo |-> assignedTo, priority |-> priority,
                                            status |-> status]]
            /\ UNCHANGED last
       ELSE /\ Respond("create", 0, Ask(actor, assignedTo, Undefined, {}), 404, "Assigned user not found", 0)
            /\ UNCHANGED reqs
  /\ UNCHANGED <<users, tasks, now, wsVars, hook>>

\* A createTask that passes the status of the request body to Task.create.
CreateTaskInsertTakesStatus(s) ==
  LET f == reqs[s]
      tid == Cardinality(DOMAIN tasks) + 1
      doc == [NewTask("A", f.assignedTo, f.actor, 1,
                      IF Truthy(f.priority) THEN f.priority ELSE "Medium")
                EXCEPT !.status = IF Truthy(f.status) THEN f.status ELSE @]
      o == PreSave(doc, doc, FALSE, TRUE)
  IN /\ f.kind = "create" /\ f.pc = "insert"
     /\ tasks' = [t \in DOMAIN tasks \cup {tid} |-> IF t = tid THEN o.doc ELSE tasks[t]]
     /\ reqs' = [reqs EXCEPT ![s] = [kind |-> "create", pc |-> "save", actor |-> f.actor,
                                     ask |-> f.ask,
                                     assignedTo |-> f.assignedTo, tid |-> tid, base |-> o.doc]]
     /\ UNCHANGED <<users, now, ops, last, wsVars, hook>>

CreateTaskInsert(s) ==
  LET f == reqs[s]
      tid == Cardinality(DOMAIN tasks) + 1
      doc == NewTask("A", f.assignedTo, f.actor, 1,
                     IF Truthy(f.priority) THEN f.priority ELSE "Medium")
      o == PreSave(doc, doc, FALSE, TRUE)
  IN /\ f.kind = "create" /\ f.pc = "insert"
     /\ tasks' = [t \in DOMAIN tasks \cup {tid} |-> IF t = tid THEN o.doc ELSE tasks[t]]
     /\ reqs' = [reqs EXCEPT ![s] = [kind |-> "create", pc |-> "save", actor |-> f.actor,
                                     ask |-> f.ask,
                                     assignedTo |-> f.assignedTo, tid |-> tid, base |-> o.doc]]
     /\ UNCHANGED <<users, now, ops, last, wsVars, hook>>

CreateTaskSave(s) ==
  LET f == reqs[s]
      doc == addAuditEntry(f.base, f.actor, "created", Undefined, Undefined, Undefined,
                           <<"Task created and assigned to", f.assignedTo>>)
      o == SaveOutcome(tasks[f.tid], f.base, doc, FALSE, FALSE)
  IN /\ f.kind = "create" /\ f.pc = "save"
     /\ tasks' = [tasks EXCEPT ![f.tid] = o.task]
     /\ reqs' = [reqs EXCEPT ![s].pc = "notify"]
     /\ UNCHANGED <<users, now, ops, last, wsVars, hook>>

CreateTaskNotify(s) ==
  LET f == reqs[s]
  IN /\ f.kind = "create" /\ f.pc = "notify"
     /\ inbox' = broadcastToUser(f.assignedTo, TaskEvent("TASK_CREATED", f.tid))
     /\ Respond("create", f.tid, f.ask, 201, "", 0)
     /\ Finish(s)
     /\ UNCHANGED <<users, tasks, now, ops, clients, conn, sends, hook>>

\* ---- updateTask
\* The sanitizer of the route, body('title').optional().trim(): the handler gets
\* the body with its title trimmed; no other key is sanitized.
updateTaskValidation(patch) ==
  IF "title" \in patch.has THEN [patch EXCEPT !.title = Trim(@)] ELSE patch

UpdateTaskFind(s, actor, tid, patch) ==
  /\ Accept(s, actor)
  /\ IF FindOwnTask(tid, actor)
       THEN /\ reqs' = [reqs EXCEPT ![s] = [kind |-> "update", pc |-> "save", actor |-> actor,
                                            ask |-> Ask(actor, Undefined, Undefined, patch.has),
                                            tid |-> tid, patch |-> updateTaskValidation(patch),
                                            base |-> tasks[tid]]]
            /\ UNCHANGED last
       ELSE /\ Respond("update", tid, Ask(actor, Undefined, Undefined, patch.has), 404, NotFoundMessage, 0)
            /\ UNCHANGED reqs
  /\ UNCHANGED <<users, tasks, now, wsVars, hook>>

\* An updateTask that saves the other fields of the patch before it refuses the
\* status, and one that refuses nothing.
UpdateOutcomeSavesFirst(f) ==
  LET r == ApplyUpdate(f.base, f.patch, f.actor)
      kept == [r.doc EXCEPT !.status = f.base.status]
      o == SaveOutcome(tasks[f.tid], f.base, kept, TRUE, FALSE)
  IN IF r.rejected
       THEN [code |-> 400, task |-> o.task, doc |-> f.base]
       ELSE SaveOutcome(tasks[f.tid], f.base, r.doc, TRUE, r.doc.status # f.base.status)

UpdateOutcomeUnguarded(f) ==
  LET r == ApplyUpdate(f.base, f.patch, f.actor)
  IN [code |-> 200, task |-> Written(tasks[f.tid], f.base, PreSaveStamp(r.doc)),
      doc |-> r.doc]

\* From the patch to the end of `await task.save()`.
UpdateOutcome(f) ==
  LET r == ApplyUpdate(f.base, f.patch, f.actor)
  IN IF r.rejected
       THEN [code |-> 400, task |-> tasks[f.tid], doc |-> f.base]
       ELSE SaveOutcome(tasks[f.tid], f.base, r.doc, TRUE, r.doc.status # f.base.status)

\* An updateTask that pushes the event before it knows the outcome of the save.
UpdateTaskSavePushesFirst(s) ==
  LET f == reqs[s]
      o == UpdateOutcome(f)
  IN /\ f.kind = "update" /\ f.pc = "save"
     /\ tasks' = [tasks EXCEPT ![f.tid] = o.task]
     /\ Tick(o, f.base)
     /\ inbox' = broadcastToUser(f.base.assignedTo, TaskEvent("TASK_UPDATED", f.tid))
     /\ IF o.code = 200
          THEN /\ reqs' = [reqs EXCEPT ![s].pc = "notify"]
               /\ UNCHANGED last
          ELSE /\ Respond("update", f.tid, f.ask, o.code,
                          IF o.code = 400 THEN RevertMessage ELSE "VersionError", 0)
               /\ Finish(s)
     /\ UNCHANGED <<users, ops, clients, conn, sends, hook>>

UpdateTaskSave(s) ==
  LET f == reqs[s]
      o == UpdateOutcome(f)
  IN /\ f.kind = "update" /\ f.pc = "save"
     /\ tasks' = [tasks EXCEPT ![f.tid] = o.task]
     /\ Tick(o, f.base)
     /\ IF o.code = 200
          THEN /\ reqs' = [reqs EXCEPT ![s].pc = "notify"]
               /\ UNCHANGED last
          ELSE /\ Respond("update", f.tid, f.ask, o.code,
                          IF o.code = 400 THEN RevertMessage ELSE "VersionError", 0)
               /\ Finish(s)
     /\ UNCHANGED <<users, ops, wsVars, hook>>

UpdateTaskNotify(s) ==
  LET f == reqs[s]
  IN /\ f.kind = "update" /\ f.pc = "notify"
     /\ inbox' = broadcastToUser(f.base.assignedTo, TaskEvent("TASK_UPDATED", f.tid))
     /\ Respond("update", f.tid, f.ask, 200, "", 0)
     /\ Finish(s)
     /\ UNCHANGED <<users, tasks, now, ops, clients, conn, sends, hook>>

\* ---- deleteTask
DeleteTaskFind(s, actor, tid) ==
  /\ Accept(s, actor)
  /\ IF FindOwnTask(tid, actor)
       THEN /\ reqs' = [reqs EXCEPT ![s] = [kind |-> "deleteTask", pc |-> "save",
                                            ask |-> Ask(actor, Undefined, Undefined, {}),
                                            actor |-> actor, tid |-> tid, base |-> tasks[tid]]]
            /\ UNCHANGED last
       ELSE /\ Respond("deleteTask", tid, Ask(actor, Undefined, Undefined, {}), 404, NotFoundMessage, 0)
            /\ UNCHANGED reqs
  /\ UNCHANGED <<users, tasks, now, wsVars, hook>>

\* A deleteTask that records the deletion in the audit history.
DeleteTaskSaveAudited(s) ==
  LET f == reqs[s]
      doc == addAuditEntry([f.base EXCEPT !.isDeleted = TRUE], f.actor, "updated",
                           Undefined, Undefined, Undefined, <<"Deleted">>)
      o == SaveOutcome(tasks[f.tid], f.base, doc, TRUE, FALSE)
  IN /\ f.kind = "deleteTask" /\ f.pc = "save"
     /\ tasks' = [tasks EXCEPT ![f.tid] = o.task]
     /\ reqs' = [reqs EXCEPT ![s].pc = "notify"]
     /\ UNCHANGED <<users, now, ops, last, wsVars, hook>>

DeleteTaskSave(s) ==
  LET f == reqs[s]
      o == SaveOutcome(tasks[f.tid], f.base, [f.base EXCEPT !.isDeleted = TRUE], TRUE, FALSE)
  IN /\ f.kind = "deleteTask" /\ f.pc = "save"
     /\ tasks' = [tasks EXCEPT ![f.tid] = o.task]
     /\ reqs' = [reqs EXCEPT ![s].pc = "notify"]
     /\ UNCHANGED <<users, now, ops, last, wsVars, hook>>

DeleteTaskNotify(s) ==
  LET f == reqs[s]
  IN /\ f.kind = "deleteTask" /\ f.pc = "notify"
     /\ inbox' = broadcastToUser(f.base.assignedTo, TaskEvent("TASK_DELETED", f.tid))
     /\ Respond("deleteTask", f.tid, f.ask, 200, "Task deleted successfully", 0)
     /\ Finish(s)
     /\ UNCHANGED <<users, tasks, now, ops, clients, conn, sends, hook>>

\* ---- addComment
AddCommentFind(s, actor, tid) ==
  /\ Accept(s, actor)
  /\ IF FindOwnTask(tid, actor)
       THEN /\ reqs' = [reqs EXCEPT ![s] = [kind |-> "comment", pc |-> "save",
                                            ask |-> Ask(actor, Undefined, Undefined, {}),
                                            actor |-> actor, tid |-> tid, base |-> tasks[tid]]]
            /\ UNCHANGED last
       ELSE /\ Respond("comment", tid, Ask(actor, Undefined, Undefined, {}), 404, NotFoundMessage, 0)
            /\ UNCHANGED reqs
  /\ UNCHANGED <<users, tasks, now, wsVars, hook>>

CommentDoc(base, actor) ==
  addAuditEntry([base EXCEPT !.comments = Append(@, [user |-> actor, text |-> "hi"])],
                actor, "comment_added", Undefined, Undefined, Undefined,
                <<"Added a comment">>)

AddCommentSave(s) ==
  LET f == reqs[s]
      o == SaveOutcome(tasks[f.tid], f.base, CommentDoc(f.base, f.actor), TRUE, FALSE)
  IN /\ f.kind = "comment" /\ f.pc = "save"
     /\ tasks' = [tasks EXCEPT ![f.tid] = o.task]
     /\ reqs' = [reqs EXCEPT ![s].pc = "notify"]
     /\ UNCHANGED <<users, now, ops, last, wsVars, hook>>

\* ---- addAttachment
AddAttachmentFind(s, actor, tid, hasFile) ==
  /\ Accept(s, actor)
  /\ IF FindOwnTask(tid, actor)
       THEN IF hasFile
              THEN /\ reqs' = [reqs EXCEPT ![s] = [kind |-> "attach", pc |-> "save",
                                 ask |-> Ask(actor, Undefined, Undefined, {}),
                                 actor |-> actor, tid |-> tid, base |-> tasks[tid],
                                 file |-> ops + 1]]
                   /\ UNCHANGED last
              ELSE /\ Respond("attach", tid, Ask(actor, Undefined, Undefined, {}), 400, "Please upload a file", 0)
                   /\ UNCHANGED reqs
       ELSE /\ Respond("attach", tid, Ask(actor, Undefined, Undefined, {}), 404, NotFoundMessage, 0)
            /\ UNCHANGED reqs
  /\ UNCHANGED <<users, tasks, now, wsVars, hook>>

AttachDoc(base, actor, file) ==
  addAuditEntry([base EXCEPT !.attachments = Append(@, [id |-> file, uploadedBy |-> actor])],
                actor, "attachment_added", Undefined, Undefined, Undefined,
                <<"Added attachment:", "file">>)

AddAttachmentSave(s) ==
  LET f == reqs[s]
      o == SaveOutcome(tasks[f.tid], f.base, AttachDoc(f.base, f.actor, f.file), TRUE, FALSE)
  IN /\ f.kind = "attach" /\ f.pc = "save"
     /\ tasks' = [tasks EXCEPT ![f.tid] = o.task]
     /\ reqs' = [reqs EXCEPT ![s].pc = "notify"]
     /\ UNCHANGED <<users, now, ops, last, wsVars, hook>>

\* ---- removeAttachment
HasAttachment(doc, attachmentId) == \E i \in 1..Len(doc.attachments) : doc.attachments[i].id = attachmentId

RemoveAttachmentFind(s, actor, tid, attachmentId) ==
  /\ Accept(s, actor)
  /\ IF FindOwnTask(tid, actor)
       THEN IF HasAttachment(tasks[tid], attachmentId)
              THEN /\ reqs' = [reqs EXCEPT ![s] = [kind |-> "detach", pc |-> "save",
                                 ask |-> Ask(actor, Undefined, Undefined, {}),
                                 actor |-> actor, tid |-> tid, base |-> tasks[tid],
                                 file |-> attachmentId]]
                   /\ UNCHANGED last
              ELSE /\ Respond("detach", tid, Ask(actor, Undefined, Undefined, {}), 404, "Attachment not found", 0)
                   /\ UNCHANGED reqs
       ELSE /\ Respond("detach", tid, Ask(actor, Undefined, Undefined, {}), 404, NotFoundMessage, 0)
            /\ UNCHANGED reqs
  /\ UNCHANGED <<users, tasks, now, wsVars, hook>>

DetachDoc(base, actor, attachmentId) ==
  LET gone == {base.attachments[i] : i \in {j \in 1..Len(base.attachments) :
                                              base.attachments[j].id = attachmentId}}
      audited == addAuditEntry(base, actor, "attachment_removed", Undefined, Undefined,
                               Undefined, <<"Removed attachment:", "file">>)
  IN [audited EXCEPT !.attachments = Without(@, gone)]

RemoveAttachmentSave(s) ==
  LET f == reqs[s]
      o == SaveOutcome(tasks[f.tid], f.base, DetachDoc(f.base, f.actor, f.file), TRUE, FALSE)
  IN /\ f.kind = "detach" /\ f.pc = "save"
     /\ tasks' = [tasks EXCEPT ![f.tid] = o.task]
     /\ reqs' = [reqs EXCEPT ![s].pc = "notify"]
     /\ UNCHANGED <<users, now, ops, last, wsVars, hook>>

\* addComment, addAttachment, removeAttachment: the populated re-read, the push, the response.
EditNotify(s) ==
  LET f == reqs[s]
  IN /\ f.kind \in {"comment", "attach", "detach"} /\ f.pc = "notify"
     /\ inbox' = broadcastToUser(f.base.assignedTo, TaskEvent("TASK_UPDATED", f.tid))
     /\ Respond(f.kind, f.tid, f.ask, 200, "", 0)
     /\ Finish(s)
     /\ UNCHANGED <<users, tasks, now, ops, clients, conn, sends, hook>>

\* ------------------------------------------------------------------ userController.js
\* A query that forgets isDeleted: false.
OwnedTasksWithDeleted(userId) == {t \in DOMAIN tasks : tasks[t].assignedTo = userId}

\* Task.countDocuments / Task.find({assignedTo, isDeleted: false})
OwnedTasks(userId) == {t \in DOMAIN tasks : tasks[t].assignedTo = userId /\ ~tasks[t].isDeleted}

RECURSIVE InOrder(_)
InOrder(S) ==
  IF S = {} THEN <<>>
  ELSE LET m == CHOOSE x \in S : \A y \in S : x <= y
       IN <<m>> \o InOrder(S \ {m})

DeleteUserFind(s, actor, target, reassignTo) ==
  /\ Accept(s, actor)
  /\ IF target = actor
       THEN /\ Respond("deleteUser", 0, Ask(actor, target, reassignTo, {}), 400, "You cannot delete your own account", 0)
            /\ UNCHANGED reqs
       ELSE IF target \notin users
         THEN /\ Respond("deleteUser", 0, Ask(actor, target, reassignTo, {}), 404, "User not found", 0)
              /\ UNCHANGED reqs
         ELSE /\ reqs' = [reqs EXCEPT ![s] = [kind |-> "deleteUser", pc |-> "count",
                            ask |-> Ask(actor, target, reassignTo, {}),
                            actor |-> actor, target |-> target, reassignTo |-> reassignTo,
                            taskCount |-> 0, found |-> <<>>, docs |-> <<>>, idx |-> 1]]
              /\ UNCHANGED last
  /\ UNCHANGED <<users, tasks, now, wsVars, hook>>

DeleteUserCount(s) ==
  LET f == reqs[s]
      taskCount == Cardinality(OwnedTasks(f.target))
  IN /\ f.kind = "deleteUser" /\ f.pc = "count"
     /\ IF taskCount > 0 /\ ~Truthy(f.reassignTo)
          THEN /\ Respond("deleteUser", 0, f.ask, 400,
                          "User has assigned tasks. Please provide reassignTo user ID.",
                          taskCount)
               /\ Finish(s)
          ELSE /\ reqs' = [reqs EXCEPT ![s].taskCount = taskCount,
                                       ![s].pc = IF taskCount > 0 THEN "reassignUser"
                                                 ELSE "delete"]
               /\ UNCHANGED last
     /\ UNCHANGED <<users, tasks, now, ops, wsVars, hook>>

DeleteUserFindReassign(s) ==
  LET f == reqs[s]
  IN /\ f.kind = "deleteUser" /\ f.pc = "reassignUser"
     /\ IF f.reassignTo \in users
          THEN /\ reqs' = [reqs EXCEPT ![s].pc = "findTasks"]
               /\ UNCHANGED last
          ELSE /\ Respond("deleteUser", 0, f.ask, 404, "Reassign target user not found", 0)
               /\ Finish(s)
     /\ UNCHANGED <<users, tasks, now, ops, wsVars, hook>>

DeleteUserFindTasks(s) ==
  LET f == reqs[s]
      found == InOrder(OwnedTasks(f.target))
  IN /\ f.kind = "deleteUser" /\ f.pc = "findTasks"
     /\ reqs' = [reqs EXCEPT ![s].found = found,
                             ![s].docs = [i \in 1..Len(found) |-> tasks[found[i]]],
                             ![s].idx = 1,
                             ![s].pc = IF found = <<>> THEN "delete" ELSE "reassign"]
     /\ UNCHANGED <<users, tasks, now, ops, last, wsVars, hook>>

\* A loop body that records the reassignment without making it.
ReassignDocAuditOnly(base, actor, target, reassignTo) ==
  addAuditEntry(base, actor, "reassigned", Undefined, Undefined, Undefined,
                <<"Reassigned from", target, "to", reassignTo, "(user deletion)">>)

\* The body of the for loop up to `await task.save()`.
ReassignDoc(base, actor, target, reassignTo) ==
  addAuditEntry([base EXCEPT !.assignedTo = reassignTo], actor, "reassigned",
                Undefined, Undefined, Undefined,
                <<"Reassigned from", target, "to", reassignTo, "(user deletion)">>)

DeleteUserReassign(s) ==
  LET f == reqs[s]
      tid == f.found[f.idx]
      base == f.docs[f.idx]
      o == SaveOutcome(tasks[tid], base, ReassignDoc(base, f.actor, f.target, f.reassignTo),
                       TRUE, FALSE)
  IN /\ f.kind = "deleteUser" /\ f.pc = "reassign"
     /\ tasks' = [tasks EXCEPT ![tid] = o.task]
     /\ reqs' = [reqs EXCEPT ![s].pc = "notify"]
     /\ UNCHANGED <<users, now, ops, last, wsVars, hook>>

DeleteUserNotify(s) ==
  LET f == reqs[s]
  IN /\ f.kind = "deleteUser" /\ f.pc = "notify"
     /\ inbox' = broadcastToUser(f.reassignTo, TaskEvent("TASK_CREATED", f.found[f.idx]))
     /\ reqs' = [reqs EXCEPT ![s].idx = f.idx + 1,
                             ![s].pc = IF f.idx < Len(f.found) THEN "reassign" ELSE "delete"]
     /\ UNCHANGED <<users, tasks, now, ops, last, clients, conn, sends, hook>>

DeleteUserDelete(s) ==
  LET f == reqs[s]
  IN /\ f.kind = "deleteUser" /\ f.pc = "delete"
     /\ users' = users \ {f.target}
     /\ Respond("deleteUser", 0, f.ask, 200, "User deleted successfully", f.taskCount)
     /\ Finish(s)
     /\ UNCHANGED <<tasks, now, ops, wsVars, hook>>

\* ------------------------------------------------------------------ the task engine
Connected(userId) == [type |-> "CONNECTED", tid |-> 0]

\* A connection before its upgrade request arrives, and one whose handshake is done.
NoConn ==
  [pc |-> "none", readyState |-> "CLOSED", token |-> "none", userId |-> Undefined,
   isAlive |-> Undefined, probed |-> FALSE, closeCode |-> 0, closeReason |-> ""]

LiveConn(userId) ==
  [NoConn EXCEPT !.pc = "registered", !.readyState = "OPEN", !.token = userId,
                 !.userId = userId, !.isAlive = "true"]

\* The hook of a component: what React keeps for it (token from useAuth, the deps of
\* the last effect run, isConnected), its refs, the transports it created and the
\* pending reconnection timer.
NoTimer == [pending |-> FALSE, delay |-> 0, token |-> ""]

HookOf(mounted, token) ==
  [mounted |-> mounted, token |-> token, deps |-> "unset", hasCleanup |-> FALSE,
   mountedRef |-> TRUE, wsRef |-> 0, socks |-> <<>>, attempts |-> 0,
   timer |-> NoTimer, timerRef |-> FALSE, isConnected |-> FALSE, logins |-> 0,
   event |-> "none", code |-> 0, committed |-> 0, view |-> 0, handed |-> <<>>]

Unmounted == HookOf(FALSE, "")

\* A task as createTask leaves it in the store (insert, then the save of 'created').
CreatedTask(assignedTo, createdBy) ==
  LET doc == NewTask("A", assignedTo, createdBy, 1, "Medium")
  IN Save(doc, doc, addAuditEntry(doc, createdBy, "created", Undefined, Undefined,
                                  Undefined, <<"Task created and assigned to", assignedTo>>)).task

\* The stores the server may start on: empty, or holding two tasks that earlier
\* requests created for u2, the second of them soft-deleted since.
Stores ==
  {<<>>,
   <<CreatedTask("u2", "u1"), [CreatedTask("u2", "u2") EXCEPT !.isDeleted = TRUE]>>}

\* Every user has live push connections (u2 on two devices); nothing is in flight.
Init ==
  /\ users = InitialUsers
  /\ tasks \in Stores
  /\ reqs = [s \in Slots |-> Idle]
  /\ now = 0
  /\ ops = 0
  /\ last = [n |-> 0, kind |-> "none", tid |-> 0, ask |-> Ask(Undefined, Undefined, Undefined, {}),
             code |-> 0, message |-> "", taskCount |-> 0]
  /\ clients = [u \in InitialUsers |-> IF u = "u1" THEN {"c1"} ELSE {"c2", "c3"}]
  /\ conn = [c \in Conns |-> LiveConn(IF c = "c1" THEN "u1" ELSE "u2")]
  /\ inbox = [c \in Conns |-> <<Connected(conn[c].userId)>>]
  /\ sends = 0
  /\ hook = Unmounted

\* A request arrives and runs to its first await.
Arrive ==
  \/ \E s \in Slots, actor \in UserIds :
       \/ \E assignedTo \in {"u2", "u3"}, status \in {Undefined, "Completed"} :
            CreateTaskFindUser(s, actor, assignedTo, Undefined, status)
       \/ \E tid \in TaskIds, patch \in Patches : UpdateTaskFind(s, actor, tid, patch)
       \/ \E tid \in TaskIds : DeleteTaskFind(s, actor, tid)
       \/ \E tid \in TaskIds : AddCommentFind(s, actor, tid)
       \/ \E tid \in TaskIds, hasFile \in BOOLEAN : AddAttachmentFind(s, actor, tid, hasFile)
       \/ \E tid \in TaskIds, attachmentId \in 1..MaxOps :
            RemoveAttachmentFind(s, actor, tid, attachmentId)
  \/ \E s \in Slots, actor \in UserIds, target \in {"u2", "u3"},
        reassignTo \in UserIds \cup {Undefined} :
       DeleteUserFind(s, actor, target, reassignTo)

\* A request in flight resumes after an await.
Resume ==
  \E s \in Slots :
    \/ CreateTaskInsert(s) \/ CreateTaskSave(s) \/ CreateTaskNotify(s)
    \/ UpdateTaskSave(s) \/ UpdateTaskNotify(s)
    \/ DeleteTaskSave(s) \/ DeleteTaskNotify(s)
    \/ AddCommentSave(s) \/ AddAttachmentSave(s) \/ RemoveAttachmentSave(s)
    \/ EditNotify(s)
    \/ DeleteUserCount(s) \/ DeleteUserFindReassign(s) \/ DeleteUserFindTasks(s)
    \/ DeleteUserReassign(s) \/ DeleteUserNotify(s) \/ DeleteUserDelete(s)

Next == Arrive \/ Resume

\* Requests overlap: the server takes the next one while others await.
Spec == Init /\ [][Next]_vars

\* Requests one at a time: none arrives while another is in flight.
AllIdle == \A s \in Slots : reqs[s] = Idle
NextSeq == (AllIdle /\ Arrive) \/ Resume
SpecSeq == Init /\ [][NextSeq]_vars

\* updateTask alone, one request at a time, over more request bodies: values with
\* surrounding whitespace, values equal to the stored ones, an empty title, other
\* tags.
UpdatePatches ==
  Patches \cup
  {OneField("title", " A "), OneField("title", ""), OneField("description", " D "),
   OneField("priority", "Medium"),
   Patch({"description", "priority"}, Undefined, " D ", 0, "High", Undefined, <<>>),
   Patch({"tags"}, Undefined, Undefined, 0, Undefined, Undefined, <<"y">>)}

NextUpdate ==
  \E s \in Slots :
    \/ \E actor \in UserIds, tid \in TaskIds, patch \in UpdatePatches :
         AllIdle /\ UpdateTaskFind(s, actor, tid, patch)
    \/ UpdateTaskSave(s)
    \/ UpdateTaskNotify(s)

SpecUpdate == Init /\ [][NextUpdate]_vars

\* deleteUser alone, one request at a time, on a store where u2 holds two live
\* tasks, with a store that may reject a save: `await task.save()` throws, the
\* catch block hands the error to next(error), and nothing after the save runs (no
\* push for that task, no later iteration, no User.findByIdAndDelete).
\* A catch block that goes on to remove the user.
DeleteUserReassignFailsThenDeletes(s) ==
  LET f == reqs[s]
  IN /\ f.kind = "deleteUser" /\ f.pc = "reassign"
     /\ users' = users \ {f.target}
     /\ Respond("deleteUser", 0, f.ask, 500, "Server Error", f.taskCount)
     /\ Finish(s)
     /\ UNCHANGED <<tasks, now, ops, wsVars, hook>>

DeleteUserReassignFails(s) ==
  LET f == reqs[s]
  IN /\ f.kind = "deleteUser" /\ f.pc = "reassign"
     /\ Respond("deleteUser", 0, f.ask, 500, "Server Error", f.taskCount)
     /\ Finish(s)
     /\ UNCHANGED <<users, tasks, now, ops, wsVars, hook>>

InitFaulty ==
  /\ users = InitialUsers
  /\ tasks = <<CreatedTask("u2", "u1"), CreatedTask("u2", "u2")>>
  /\ reqs = [s \in Slots |-> Idle]
  /\ now = 0
  /\ ops = 0
  /\ last = [n |-> 0, kind |-> "none", tid |-> 0, ask |-> Ask(Undefined, Undefined, Undefined, {}),
             code |-> 0, message |-> "", taskCount |-> 0]
  /\ clients = [u \in InitialUsers |-> IF u = "u1" THEN {"c1"} ELSE {"c2", "c3"}]
  /\ conn = [c \in Conns |-> LiveConn(IF c = "c1" THEN "u1" ELSE "u2")]
  /\ inbox = [c \in Conns |-> <<Connected(conn[c].userId)>>]
  /\ sends = 0
  /\ hook = Unmounted

NextFaulty ==
  \E s \in Slots :
    \/ \E actor \in UserIds, target \in UserIds, reassignTo \in UserIds \cup {Undefined} :
         AllIdle /\ DeleteUserFind(s, actor, target, reassignTo)
    \/ DeleteUserCount(s)
    \/ DeleteUserFindReassign(s)
    \/ DeleteUserFindTasks(s)
    \/ DeleteUserReassign(s)
    \/ DeleteUserReassignFails(s)
    \/ DeleteUserNotify(s)
    \/ DeleteUserDelete(s)

SpecFaulty == InitFaulty /\ [][NextFaulty]_vars

\* ------------------------------------------------------------------ routes/users.js
MaxSends == 2

\* The token of an upgrade request: absent, not verifiable, or signed for a user id
\* (u3 is a user that is not stored).
Tokens == {"none", "bad", "u1", "u2", "u3"}
ConnOrder == <<"c1", "c2", "c3">>

\* this.wss.clients, kept by the ws library: every transport from its upgrade to the
\* close of its socket.
InWss(c) == conn[c].pc # "none" /\ conn[c].readyState # "CLOSED"

\* The transport of the next upgrade request (its identity is not program state).
NextConn(c) ==
  \E i \in 1..Len(ConnOrder) :
    /\ ConnOrder[i] = c /\ conn[c].pc = "none"
    /\ \A j \in 1..(i - 1) : conn[ConnOrder[j]].pc # "none"

\* A rejection that leaves the transport open.
Close1008Skipped(ws, reason) == [ws EXCEPT !.pc = "rejected"]

\* ws.close(1008, reason): nothing happens on a transport that is no longer open.
Close1008(ws, reason) ==
  IF ws.readyState = "OPEN"
    THEN [ws EXCEPT !.pc = "rejected", !.readyState = "CLOSING", !.closeCode = 1008,
                    !.closeReason = reason]
    ELSE [ws EXCEPT !.pc = "rejected"]

\* this.clients.get(userId).add(ws), after the set is created if absent.
Register(reg, c, userId) ==
  [u \in DOMAIN reg \cup {userId} |->
     IF u = userId THEN (IF u \in DOMAIN reg THEN reg[u] ELSE {}) \cup {c} ELSE reg[u]]

\* A handleDisconnection that keeps the entry of a user without connections.
handleDisconnectionKeepsEntry(reg, c, userId) ==
  IF userId # Undefined /\ userId \in DOMAIN reg
    THEN [reg EXCEPT ![userId] = @ \ {c}]
    ELSE reg

\* A handleDisconnection that drops the whole entry of the user.
handleDisconnectionDropsEntry(reg, c, userId) ==
  IF userId # Undefined /\ userId \in DOMAIN reg
    THEN [u \in DOMAIN reg \ {userId} |-> reg[u]]
    ELSE reg

\* WebSocketServer.handleDisconnection(ws), on the registry reg.
handleDisconnection(reg, c, userId) ==
  IF userId # Undefined /\ userId \in DOMAIN reg
    THEN IF reg[userId] \ {c} = {}
           THEN [u \in DOMAIN reg \ {userId} |-> reg[u]]
           ELSE [reg EXCEPT ![userId] = @ \ {c}]
    ELSE reg

\* handleConnection up to `await User.findById(decoded.id)`.
handleConnection(c, token) ==
  /\ sends < MaxSends /\ NextConn(c)
  /\ sends' = sends + 1
  /\ conn' = [conn EXCEPT ![c] =
       LET ws == [NoConn EXCEPT !.pc = "lookup", !.readyState = "OPEN", !.token = token]
       IN IF token = "none" THEN Close1008(ws, "Token required")
          ELSE IF token = "bad" THEN Close1008(ws, "Invalid token")
          ELSE ws]
  /\ UNCHANGED <<clients, inbox, taskVars, hook>>

\* A handleConnection that registers without the acknowledgement.
handleConnectionResumeNoAck(c) ==
  LET ws == conn[c]
  IN /\ ws.pc = "lookup"
     /\ IF ws.token \notin users
          THEN /\ conn' = [conn EXCEPT ![c] = Close1008(ws, "User not found")]
               /\ UNCHANGED <<clients, inbox>>
          ELSE /\ conn' = [conn EXCEPT ![c] = [ws EXCEPT !.pc = "registered",
                                                         !.userId = ws.token,
                                                         !.isAlive = "true"]]
               /\ clients' = Register(clients, c, ws.token)
               /\ UNCHANGED inbox
     /\ UNCHANGED <<sends, taskVars, hook>>

\* handleConnection after the lookup: reject, or register, acknowledge and attach the
\* pong, message, close and error handlers.
handleConnectionResume(c) ==
  LET ws == conn[c]
  IN /\ ws.pc = "lookup"
     /\ IF ws.token \notin users
          THEN /\ conn' = [conn EXCEPT ![c] = Close1008(ws, "User not found")]
               /\ UNCHANGED <<clients, inbox>>
          ELSE /\ conn' = [conn EXCEPT ![c] = [ws EXCEPT !.pc = "registered",
                                                         !.userId = ws.token,
                                                         !.isAlive = "true"]]
               /\ clients' = Register(clients, c, ws.token)
               /\ inbox' = [inbox EXCEPT ![c] = IF ws.readyState = "OPEN"
                                                  THEN Append(@, Connected(ws.token))
                                                  ELSE @]
     /\ UNCHANGED <<sends, taskVars, hook>>

\* The 'close' event of a transport: the handler exists once the handshake is done.
EmitClose(c) ==
  clients' = IF conn[c].pc = "registered"
               THEN handleDisconnection(clients, c, conn[c].userId)
               ELSE clients

\* The client closes the transport, or the network drops it.
ClientCloses(c) ==
  /\ conn[c].readyState = "OPEN"
  /\ conn' = [conn EXCEPT ![c].readyState = "CLOSED", ![c].closeCode = 1001,
                          ![c].closeReason = "peer", ![c].probed = FALSE]
  /\ EmitClose(c)
  /\ UNCHANGED <<inbox, sends, taskVars, hook>>

\* The socket of a transport that the server closed or terminated goes away.
SocketCloses(c) ==
  /\ conn[c].readyState = "CLOSING"
  /\ conn' = [conn EXCEPT ![c].readyState = "CLOSED", ![c].probed = FALSE]
  /\ EmitClose(c)
  /\ UNCHANGED <<inbox, sends, taskVars, hook>>

\* The 'error' event: the cleanup runs, the library destroys the socket, and the
\* 'close' event follows.
ErrorEvent(c) ==
  /\ conn[c].pc = "registered" /\ conn[c].readyState = "OPEN"
  /\ clients' = handleDisconnection(clients, c, conn[c].userId)
  /\ conn' = [conn EXCEPT ![c].readyState = "CLOSING", ![c].closeCode = 1006,
                          ![c].closeReason = "error"]
  /\ UNCHANGED <<inbox, sends, taskVars, hook>>

\* A 'pong' handler that leaves the flag alone.
PongIgnored(c) ==
  /\ conn[c].probed /\ conn[c].readyState = "OPEN"
  /\ conn' = [conn EXCEPT ![c].probed = FALSE]
  /\ UNCHANGED <<clients, inbox, sends, taskVars, hook>>

\* The client answers a probe; the 'pong' handler exists once the handshake is done.
Pong(c) ==
  /\ conn[c].probed /\ conn[c].readyState = "OPEN"
  /\ conn' = [conn EXCEPT ![c].probed = FALSE,
                          ![c].isAlive = IF conn[c].pc = "registered" THEN "true" ELSE @]
  /\ UNCHANGED <<clients, inbox, sends, taskVars, hook>>

\* A sweep that probes and never terminates.
SweptNeverTerminates(ws) ==
  [ws EXCEPT !.isAlive = "false", !.probed = (ws.readyState = "OPEN")]

\* One round of the setInterval callback on one transport of wss.clients.
Swept(ws) ==
  IF ws.isAlive = "false"
    THEN [ws EXCEPT !.readyState = "CLOSING",
                    !.closeCode = IF ws.readyState = "OPEN" THEN 1006 ELSE @,
                    !.closeReason = IF ws.readyState = "OPEN" THEN "terminated" ELSE @]
    ELSE [ws EXCEPT !.isAlive = "false", !.probed = (ws.readyState = "OPEN")]

startHeartbeat ==
  /\ sends < MaxSends
  /\ sends' = sends + 1
  /\ conn' = [c \in Conns |-> IF InWss(c) THEN Swept(conn[c]) ELSE conn[c]]
  /\ UNCHANGED <<clients, inbox, taskVars, hook>>

\* The registries the server may be running with: none yet, or u2 on two devices.
Registries ==
  {[c \in Conns |-> NoConn],
   [c \in Conns |-> IF c = "c3" THEN NoConn ELSE LiveConn("u2")]}

RegisteredIn(cs, userId) == {c \in Conns : cs[c].pc = "registered" /\ cs[c].userId = userId}

InitWS ==
  /\ users = InitialUsers
  /\ tasks = <<CreatedTask("u2", "u1")>>
  /\ reqs = [s \in Slots |-> Idle]
  /\ now = 0
  /\ ops = 0
  /\ last = [n |-> 0, kind |-> "none", tid |-> 0, ask |-> Ask(Undefined, Undefined, Undefined, {}),
             code |-> 0, message |-> "", taskCount |-> 0]
  /\ conn \in Registries
  /\ clients = [u \in {v \in UserIds : RegisteredIn(conn, v) # {}} |-> RegisteredIn(conn, u)]
  /\ inbox = [c \in Conns |-> IF conn[c].pc = "registered"
                                THEN <<Connected(conn[c].userId)>> ELSE <<>>]
  /\ sends = 0
  /\ hook = Unmounted

\* The life of the connections: handshakes, closes, errors, pongs and sweeps.
RegistryStep ==
  \/ \E c \in Conns, token \in Tokens : handleConnection(c, token)
  \/ \E c \in Conns :
       \/ handleConnectionResume(c)
       \/ ClientCloses(c) \/ SocketCloses(c) \/ ErrorEvent(c)
       \/ Pong(c)
  \/ startHeartbeat

\* The same while u2 updates a task of theirs, which pushes TASK_UPDATED to u2.
NextWS ==
  \/ RegistryStep
  \/ \E s \in Slots :
       \/ AllIdle /\ UpdateTaskFind(s, "u2", 1, OneField("priority", "High"))
       \/ UpdateTaskSave(s)
       \/ UpdateTaskNotify(s)

SpecWS == InitWS /\ [][NextWS]_vars

\* The connections alone; the socket of a closing transport does go away.
SpecWSFair == InitWS /\ [][RegistryStep]_vars /\ \A c \in Conns : WF_vars(SocketCloses(c))

\* ------------------------------------------------------------------ useWebSocket.js
MaxSockets == 4
MaxLogins == 3
MaxMutations == 1
MaxFrames == 2
BaseDelay == 3000
MaxAttempts == 3
CleanClose == 1000
ClientTokens == {"", "t1", "t2"}
CloseCodes == {1000, 1006}

\* new WebSocket(wsUrl) with its handlers; closeCode is the code of the close() call
\* of the client (0: none), queue the frames received and not yet handled.
Sock(token) ==
  [readyState |-> "CONNECTING", onclose |-> TRUE, token |-> token, closeCode |-> 0,
   queue |-> <<>>]

\* useEffect(..., [token]): the effect is due after the first render and after a
\* render in which token differs from the one of the last effect run.
EffectDue == hook.mounted /\ hook.deps # hook.token

\* A cleanup that closes the transport and leaves the reconnection timer running.
CleanupLeavesTimer(h) ==
  LET stopped == [h EXCEPT !.mountedRef = FALSE]
  IN IF h.wsRef # 0
       THEN [stopped EXCEPT
               !.socks[h.wsRef].onclose = FALSE,
               !.socks[h.wsRef].readyState =
                  IF @ \in {"CONNECTING", "OPEN"} THEN "CLOSING" ELSE @,
               !.socks[h.wsRef].closeCode =
                  IF h.socks[h.wsRef].readyState \in {"CONNECTING", "OPEN"}
                    THEN CleanClose ELSE @,
               !.wsRef = 0]
       ELSE stopped

\* A cleanup that forgets the transport without closing it.
CleanupKeepsTransport(h) ==
  [h EXCEPT !.mountedRef = FALSE,
            !.timer = IF h.timerRef THEN NoTimer ELSE @,
            !.timerRef = FALSE,
            !.wsRef = 0]

\* The cleanup function the effect returned.
Cleanup(h) ==
  LET stopped == [h EXCEPT !.mountedRef = FALSE,
                           !.timer = IF h.timerRef THEN NoTimer ELSE @,
                           !.timerRef = FALSE]
  IN IF h.wsRef # 0
       THEN [stopped EXCEPT
               !.socks[h.wsRef].onclose = FALSE,
               !.socks[h.wsRef].readyState =
                  IF @ \in {"CONNECTING", "OPEN"} THEN "CLOSING" ELSE @,
               !.socks[h.wsRef].closeCode =
                  IF h.socks[h.wsRef].readyState \in {"CONNECTING", "OPEN"}
                    THEN CleanClose ELSE @,
               !.wsRef = 0]
       ELSE stopped

\* The effect body: no transport without a token, none while one is open or
\* connecting, else a new WebSocket with its handlers and a cleanup.
Effect(h) ==
  LET ran == [h EXCEPT !.mountedRef = TRUE, !.deps = h.token, !.event = "effect"]
  IN IF h.token = ""
       THEN [ran EXCEPT !.hasCleanup = FALSE]
       ELSE IF h.wsRef # 0 /\ h.socks[h.wsRef].readyState \in {"OPEN", "CONNECTING"}
         THEN [ran EXCEPT !.hasCleanup = FALSE]
         ELSE [ran EXCEPT !.socks = Append(@, Sock(h.token)), !.wsRef = Len(h.socks) + 1,
                          !.hasCleanup = TRUE]

\* React flushes the effect: the cleanup of the previous run, then the body.
RunEffect ==
  /\ EffectDue
  /\ hook.token = "" \/ Len(hook.socks) < MaxSockets
  /\ hook' = Effect(IF hook.hasCleanup THEN Cleanup(hook) ELSE hook)
  /\ UNCHANGED <<taskVars, wsVars>>

\* AuthProvider sets another token (login, logout); the component renders again.
setToken(t) ==
  /\ hook.mounted /\ ~EffectDue
  /\ t # hook.token /\ hook.logins < MaxLogins
  /\ hook' = [hook EXCEPT !.token = t, !.logins = @ + 1, !.event = "token"]
  /\ UNCHANGED <<taskVars, wsVars>>

Unmount ==
  /\ hook.mounted
  /\ hook' = [(IF hook.hasCleanup THEN Cleanup(hook) ELSE hook)
                EXCEPT !.mounted = FALSE, !.hasCleanup = FALSE, !.event = "unmount"]
  /\ UNCHANGED <<taskVars, wsVars>>

\* ws.onopen that leaves the retry counter as it is.
onopenKeepsAttempts(h) ==
  IF ~h.mountedRef THEN h
  ELSE [h EXCEPT !.isConnected = TRUE, !.event = "open"]

\* ws.onopen
onopen(h) ==
  IF ~h.mountedRef THEN h
  ELSE [h EXCEPT !.isConnected = TRUE, !.attempts = 0, !.event = "open"]

\* ws.onclose that retries without a limit.
oncloseUnbounded(h, code, token) ==
  IF ~h.mountedRef THEN h
  ELSE LET closed == [h EXCEPT !.isConnected = FALSE, !.wsRef = 0, !.event = "close",
                               !.code = code]
       IN IF code # CleanClose /\ token # ""
            THEN [closed EXCEPT
                    !.attempts = @ + 1,
                    !.timer = [pending |-> TRUE, delay |-> BaseDelay * (h.attempts + 1),
                               token |-> token],
                    !.timerRef = TRUE]
            ELSE closed

\* ws.onclose that waits the base interval before every attempt.
oncloseFixedDelay(h, code, token) ==
  IF ~h.mountedRef THEN h
  ELSE LET closed == [h EXCEPT !.isConnected = FALSE, !.wsRef = 0, !.event = "close",
                               !.code = code]
       IN IF code # CleanClose /\ h.attempts < MaxAttempts /\ token # ""
            THEN [closed EXCEPT
                    !.attempts = @ + 1,
                    !.timer = [pending |-> TRUE, delay |-> BaseDelay, token |-> token],
                    !.timerRef = TRUE]
            ELSE closed

\* ws.onclose that retries after every closure, whatever its code.
oncloseAnyCode(h, code, token) ==
  IF ~h.mountedRef THEN h
  ELSE LET closed == [h EXCEPT !.isConnected = FALSE, !.wsRef = 0, !.event = "close",
                               !.code = code]
       IN IF h.attempts < MaxAttempts /\ token # ""
            THEN [closed EXCEPT
                    !.attempts = @ + 1,
                    !.timer = [pending |-> TRUE, delay |-> BaseDelay * (h.attempts + 1),
                               token |-> token],
                    !.timerRef = TRUE]
            ELSE closed

\* ws.onclose, with the token of the render that created the transport; code is
\* event.code.
onclose(h, code, token) ==
  IF ~h.mountedRef THEN h
  ELSE LET closed == [h EXCEPT !.isConnected = FALSE, !.wsRef = 0, !.event = "close",
                               !.code = code]
       IN IF code # CleanClose /\ h.attempts < MaxAttempts /\ token # ""
            THEN [closed EXCEPT
                    !.attempts = @ + 1,
                    !.timer = [pending |-> TRUE, delay |-> BaseDelay * (h.attempts + 1),
                               token |-> token],
                    !.timerRef = TRUE]
            ELSE closed

\* The setTimeout callback: setIsConnected(false) on a state that is already false
\* causes no render, and a render would not change the deps of the effect.
onTimeout(h) ==
  LET fired == [h EXCEPT !.timer.pending = FALSE]
  IN IF h.mountedRef /\ h.timer.token # ""
       THEN [fired EXCEPT !.isConnected = FALSE, !.event = "reconnect"]
       ELSE [fired EXCEPT !.event = "timeout"]

TransportOpens(i) ==
  /\ i \in 1..Len(hook.socks) /\ hook.socks[i].readyState = "CONNECTING"
  /\ hook' = onopen([hook EXCEPT !.socks[i].readyState = "OPEN"])
  /\ UNCHANGED <<taskVars, wsVars>>

TransportCloses(i, code) ==
  /\ i \in 1..Len(hook.socks) /\ hook.socks[i].readyState # "CLOSED"
  /\ LET gone == [hook EXCEPT !.socks[i].readyState = "CLOSED"]
     IN hook' = IF hook.socks[i].onclose
                  THEN onclose(gone, code, hook.socks[i].token)
                  ELSE gone
  /\ UNCHANGED <<taskVars, wsVars>>

TimerFires ==
  /\ hook.timer.pending
  /\ hook' = onTimeout(hook)
  /\ UNCHANGED <<taskVars, wsVars>>

\* Dashboard.loadTasks: the list on the device becomes the one of the store.
loadTasks(h) == [h EXCEPT !.view = h.committed]

\* Dashboard.handleWebSocketMessage
handleWebSocketMessage(h, data) ==
  IF data.type \in {"TASK_CREATED", "TASK_UPDATED"} THEN loadTasks(h) ELSE h

\* JSON.stringify(message) of ws.send on the server.
JSONstringify(m) == "{type:" \o m.type \o ",task:" \o ToString(m.tid) \o "}"

\* The messages of the server, and the texts a frame may carry: theirs, the JSON
\* texts of null and of an object without type, and a text that is not JSON.
ServerMessages ==
  {TaskEvent(type, 1) : type \in {"TASK_CREATED", "TASK_UPDATED", "TASK_DELETED"}}
    \cup {TaskEvent("PONG", 0), Connected("u2")}

Frames == {JSONstringify(m) : m \in ServerMessages} \cup {"null", "{}", "{type:"}

\* JSON.parse(event.data): the value, or a SyntaxError.
JSONparse(text) ==
  IF \E m \in ServerMessages : JSONstringify(m) = text
    THEN [threw |-> FALSE, isNull |-> FALSE,
          data |-> CHOOSE m \in ServerMessages : JSONstringify(m) = text]
    ELSE IF text = "{}"
      THEN [threw |-> FALSE, isNull |-> FALSE, data |-> TaskEvent(Undefined, 0)]
      ELSE IF text = "null"
        THEN [threw |-> FALSE, isNull |-> TRUE, data |-> TaskEvent(Undefined, 0)]
        ELSE [threw |-> TRUE, isNull |-> FALSE, data |-> TaskEvent(Undefined, 0)]

\* ws.onmessage that hands every parsed message to the caller.
onmessageHandsAll(h, text) ==
  LET parsed == JSONparse(text)
  IN IF ~h.mountedRef THEN h
     ELSE IF parsed.threw \/ parsed.isNull THEN h
     ELSE handleWebSocketMessage([h EXCEPT !.handed = Append(@, parsed.data)], parsed.data)

\* ws.onmessage: handed is what onMessage was called with so far. A text that does
\* not parse, and `data.type` of null, throw into the catch block.
onmessage(h, text) ==
  LET parsed == JSONparse(text)
  IN IF ~h.mountedRef THEN h
     ELSE IF parsed.threw \/ parsed.isNull THEN h
     ELSE IF parsed.data.type \notin {"PONG", "CONNECTED"}
       THEN handleWebSocketMessage([h EXCEPT !.handed = Append(@, parsed.data)], parsed.data)
       ELSE h

\* Another actor's update of a task of this user is committed; the server pushes
\* TASK_UPDATED to the transports of the device that are open at that moment.
MutationCommitted ==
  /\ hook.mounted /\ hook.committed < MaxMutations
  /\ hook' = [hook EXCEPT
               !.committed = @ + 1,
               !.socks = [i \in DOMAIN hook.socks |->
                            IF hook.socks[i].readyState = "OPEN"
                              THEN [hook.socks[i] EXCEPT
                                      !.queue = Append(@, JSONstringify(TaskEvent("TASK_UPDATED", 1)))]
                              ELSE hook.socks[i]]]
  /\ UNCHANGED <<taskVars, wsVars>>

\* A received frame is handed to ws.onmessage.
MessageArrives(i) ==
  /\ i \in 1..Len(hook.socks) /\ hook.socks[i].readyState = "OPEN"
  /\ hook.socks[i].queue # <<>>
  /\ hook' = onmessage([hook EXCEPT !.socks[i].queue = Tail(@)],
                       Head(hook.socks[i].queue))
  /\ UNCHANGED <<taskVars, wsVars>>

InitClient ==
  /\ users = InitialUsers
  /\ tasks = <<>>
  /\ reqs = [s \in Slots |-> Idle]
  /\ now = 0
  /\ ops = 0
  /\ last = [n |-> 0, kind |-> "none", tid |-> 0, ask |-> Ask(Undefined, Undefined, Undefined, {}),
             code |-> 0, message |-> "", taskCount |-> 0]
  /\ conn = [c \in Conns |-> NoConn]
  /\ clients = <<>>
  /\ inbox = [c \in Conns |-> <<>>]
  /\ sends = 0
  /\ hook \in {HookOf(TRUE, t) : t \in {"", "t1"}}

NextClient ==
  \/ RunEffect
  \/ \E t \in ClientTokens : setToken(t)
  \/ Unmount
  \/ \E i \in 1..MaxSockets : TransportOpens(i)
  \/ \E i \in 1..MaxSockets, code \in CloseCodes : TransportCloses(i, code)
  \/ TimerFires
  \/ MutationCommitted
  \/ \E i \in 1..MaxSockets : MessageArrives(i)

SpecClient == InitClient /\ [][NextClient]_vars

\* One device and the frames it receives: any text may arrive on an open
\* transport, in any number up to MaxFrames waiting or handed.
FrameReceived(i, text) ==
  /\ i \in 1..Len(hook.socks) /\ hook.socks[i].readyState = "OPEN"
  /\ Len(hook.socks[i].queue) + Len(hook.handed) < MaxFrames
  /\ hook' = [hook EXCEPT !.socks[i].queue = Append(@, text)]
  /\ UNCHANGED <<taskVars, wsVars>>

NextInbound ==
  \/ RunEffect
  \/ Unmount
  \/ \E i \in 1..MaxSockets : TransportOpens(i)
  \/ \E i \in 1..MaxSockets, code \in CloseCodes : TransportCloses(i, code)
  \/ \E i \in 1..MaxSockets, text \in Frames : FrameReceived(i, text)
  \/ \E i \in 1..MaxSockets : MessageArrives(i)

SpecInbound == InitClient /\ [][NextInbound]_vars

\* The event loop runs every callback that is due: a timer that expired, a flushed
\* effect, the open event of a transport, a received frame.
SpecClientFair ==
  /\ InitClient /\ [][NextClient]_vars
  /\ WF_vars(TimerFires) /\ WF_vars(RunEffect)
  /\ \A i \in 1..MaxSockets : WF_vars(TransportOpens(i)) /\ WF_vars(MessageArrives(i))

\* ================================================================== properties
IsPrefix(a, b) == Len(a) <= Len(b) /\ SubSeq(b, 1, Len(a)) = a
Acts(s) == reqs'[s] # reqs[s]
Answered == last'.n # last.n
LastEntry(t) == tasks[t].auditHistory[Len(tasks[t].auditHistory)]
NonDeletedOf(userId) == {t \in DOMAIN tasks : tasks[t].assignedTo = userId /\ ~tasks[t].isDeleted}

\* C1: an updateTask that finds the task Completed and asks for another status is
\* answered 400 'Cannot revert status from Completed' and writes nothing, so the
\* status stays as it was.
RevertAsked(f) ==
  /\ f.kind = "update" /\ f.pc = "save"
  /\ f.base.status = "Completed"
  /\ "status" \in f.patch.has /\ f.patch.status \in StatusValues \ {"Completed"}

C1_RevertIsRejected ==
  [][\A s \in Slots : (RevertAsked(reqs[s]) /\ Acts(s)) =>
       /\ reqs'[s] = Idle
       /\ Answered /\ last'.code = 400
       /\ last'.message = "Cannot revert status from Completed"
       /\ tasks' = tasks
       /\ tasks'[reqs[s].tid].status = tasks[reqs[s].tid].status]_vars

C1_Witness ==
  /\ last.kind = "update" /\ last.code = 400
  /\ last.message = "Cannot revert status from Completed"
  /\ last.tid \in DOMAIN tasks /\ tasks[last.tid].status = "Completed"

\* C2: the stored status of a task never goes from Completed to another value,
\* whatever requests overlap.
C2_CompletedIsTerminal ==
  [][\A t \in DOMAIN tasks :
       tasks[t].status = "Completed" => tasks'[t].status = "Completed"]_vars

\* C3: an updateTask answered with the invalid-transition error changes nothing:
\* no field of the patch is stored, no audit entry is appended, no event is pushed.
C3_RejectedUpdateWritesNothing ==
  [][\A s \in Slots :
       (reqs[s].kind = "update" /\ Acts(s) /\ Answered /\ last'.code = 400) =>
         /\ tasks' = tasks
         /\ inbox' = inbox
         /\ reqs'[s] = Idle]_vars

C3_Witness ==
  /\ last.kind = "update" /\ last.code = 400
  /\ {"title", "priority", "status"} \subseteq last.ask.has
  /\ last.tid \in DOMAIN tasks
  /\ tasks[last.tid].title = "A" /\ tasks[last.tid].priority = "Medium"
  /\ tasks[last.tid].status = "Completed"

C5_AuditAppendOnly ==
  [][\A t \in DOMAIN tasks :
       /\ t \in DOMAIN tasks'
       /\ IsPrefix(tasks[t].auditHistory, tasks'[t].auditHistory)]_vars

C5_Witness ==
  \E t \in DOMAIN tasks :
    /\ Len(tasks[t].auditHistory) >= 4
    /\ tasks[t].comments # <<>>

\* C6 as claimed: every deleteUser without reassignTo, for a user with non-deleted
\* tasks, fails, reports their number as taskCount and changes nothing.
C6_RefusalReportsTaskCount ==
  [][(/\ Answered /\ last'.kind = "deleteUser"
      /\ last'.ask.reassignTo = Undefined
      /\ last'.ask.target \in users
      /\ NonDeletedOf(last'.ask.target) # {}) =>
       /\ last'.code = 400
       /\ last'.taskCount = Cardinality(NonDeletedOf(last'.ask.target))
       /\ users' = users /\ tasks' = tasks /\ inbox' = inbox]_vars

\* C6 amended: the same for the deletion of another user; the deletion of one's
\* own account is refused before the tasks are counted.
C6_RefusalOfAnotherUserReportsTaskCount ==
  [][(/\ Answered /\ last'.kind = "deleteUser"
      /\ last'.ask.reassignTo = Undefined
      /\ last'.ask.target \in users
      /\ last'.ask.target # last'.ask.actor
      /\ NonDeletedOf(last'.ask.target) # {}) =>
       /\ last'.code = 400
       /\ last'.taskCount = Cardinality(NonDeletedOf(last'.ask.target))
       /\ users' = users /\ tasks' = tasks /\ inbox' = inbox]_vars

C6_Witness ==
  /\ last.kind = "deleteUser" /\ last.code = 400 /\ last.taskCount = 1
  /\ last.ask.reassignTo = Undefined /\ last.ask.target = "u2" /\ last.ask.actor = "u1"
  /\ "u2" \in users
  /\ Cardinality({t \in DOMAIN tasks : tasks[t].assignedTo = "u2"}) = 2

\* C7: with requests one at a time, deleteUser with a reassignTo that exists finds
\* exactly the non-deleted tasks of the user, gives each to reassignTo with one
\* 'reassigned' audit entry, never touches a soft-deleted task, and removes the
\* user only after the last of them is saved.
C7_Reassigned(f, i) ==
  LET t == f.found[i]
  IN /\ tasks[t].assignedTo = f.reassignTo
     /\ tasks[t].auditHistory = Append(f.docs[i].auditHistory, LastEntry(t))
     /\ LastEntry(t).action = "reassigned"
     /\ [tasks[t] EXCEPT !.assignedTo = f.docs[i].assignedTo,
                         !.auditHistory = f.docs[i].auditHistory,
                         !.v = f.docs[i].v] = f.docs[i]

C7_ReassignThenDelete ==
  [][\A s \in Slots : (reqs[s].kind = "deleteUser" /\ Acts(s)) =>
       LET f == reqs[s]
       IN /\ \A t \in DOMAIN tasks : tasks[t].isDeleted => tasks'[t] = tasks[t]
          /\ f.pc = "findTasks" =>
               /\ SeqRange(reqs'[s].found) = NonDeletedOf(f.target)
               /\ Len(reqs'[s].found) = Cardinality(NonDeletedOf(f.target))
          /\ f.pc = "reassign" =>
               /\ users' = users
               /\ tasks'[f.found[f.idx]].assignedTo = f.reassignTo
               /\ Len(tasks'[f.found[f.idx]].auditHistory)
                    = Len(tasks[f.found[f.idx]].auditHistory) + 1
               /\ \A t \in DOMAIN tasks : t # f.found[f.idx] => tasks'[t] = tasks[t]
          /\ users' # users =>
               /\ users' = users \ {f.target}
               /\ tasks' = tasks
               /\ f.taskCount > 0 =>
                    /\ f.reassignTo \in users
                    /\ f.found # <<>>
                    /\ \A i \in 1..Len(f.found) : C7_Reassigned(f, i)]_vars

C7_Witness ==
  /\ last.kind = "deleteUser" /\ last.code = 200 /\ last.taskCount = 1
  /\ last.ask.target = "u2" /\ last.ask.reassignTo = "u1"
  /\ "u2" \notin users
  /\ DOMAIN tasks = {1, 2}
  /\ tasks[1].assignedTo = "u1" /\ LastEntry(1).action = "reassigned"
  /\ tasks[2].isDeleted /\ tasks[2].assignedTo = "u2"
  /\ Len(tasks[2].auditHistory) = 1

\* C8: the push of an updateTask appends the event to every connection registered
\* for the assignee whose transport is open, to no other connection, leaves the
\* registry and the connections as they were, and the request is answered 200.
C8_PushReachesOpenConnections ==
  [][\A s \in Slots : (reqs[s].kind = "update" /\ reqs[s].pc = "notify" /\ Acts(s)) =>
       LET U == reqs[s].base.assignedTo
           e == [type |-> "TASK_UPDATED", tid |-> reqs[s].tid]
       IN /\ \A c \in Conns :
               inbox'[c] = IF /\ U \in DOMAIN clients /\ c \in clients[U]
                              /\ conn[c].readyState = "OPEN"
                             THEN Append(inbox[c], e)
                             ELSE inbox[c]
          /\ clients' = clients /\ conn' = conn
          /\ Answered /\ last'.code = 200]_vars

Received(c) == inbox[c] # <<>> /\ inbox[c][Len(inbox[c])].type = "TASK_UPDATED"

C8_Witness ==
  /\ last.kind = "update" /\ last.code = 200
  /\ "u2" \in DOMAIN clients /\ clients["u2"] = {"c1", "c2", "c3"}
  /\ Received("c1") /\ Received("c2")
  /\ conn["c3"].readyState # "OPEN" /\ ~Received("c3")

\* C9: a sweep terminates every registered connection whose isAlive is still false;
\* whenever the transport of a registered connection closes, whether terminated or
\* closed by the client, the connection leaves its user's set and the entry goes with
\* the last connection; and a terminated connection does leave the registry.
Unregistered(reg, c) ==
  [u \in {v \in DOMAIN reg : reg[v] \ {c} # {}} |-> reg[u] \ {c}]

SweepStep == sends' # sends /\ \A c \in Conns : conn'[c].pc = conn[c].pc

InRegistry(c) == \E u \in DOMAIN clients : c \in clients[u]

C9_SilentConnectionIsTerminatedAndRemoved ==
  /\ [][\A c \in Conns :
          /\ (SweepStep /\ conn[c].pc = "registered" /\ conn[c].readyState = "OPEN"
                /\ conn[c].isAlive = "false") =>
               (conn'[c].readyState = "CLOSING" /\ conn'[c].closeReason = "terminated")
          /\ (conn[c].pc = "registered" /\ conn[c].readyState # "CLOSED"
                /\ conn'[c].readyState = "CLOSED") =>
               clients' = Unregistered(clients, c)]_vars
  /\ \A c \in Conns :
       (conn[c].pc = "registered" /\ conn[c].readyState = "CLOSING"
          /\ conn[c].closeReason = "terminated") ~> ~InRegistry(c)

C9_Witness ==
  /\ conn["c1"].closeReason = "terminated" /\ conn["c1"].readyState = "CLOSED"
  /\ conn["c2"].closeReason = "terminated" /\ conn["c2"].readyState = "CLOSED"
  /\ "u2" \notin DOMAIN clients

\* C10: when the reconnection delay has elapsed (the timer callback took its
\* 'Attempting reconnect' branch), the hook is connecting again: a new transport is
\* CONNECTING, or the effect that creates it is due.
Connecting ==
  hook.wsRef # 0 /\ hook.socks[hook.wsRef].readyState = "CONNECTING"

C10_ReconnectOpensTransport ==
  hook.event = "reconnect" => (Connecting \/ EffectDue)

\* C11: an update committed while the push connection of a device was down is
\* picked up once the loss is recovered: from the moment the reconnection delay has
\* elapsed with the list of the device stale, the list becomes the one of the store
\* without a manual refresh, unless the session ends first (unmount, another
\* credential) or the transport closes again.
Stale == hook.view # hook.committed

C11_MissedUpdateIsPickedUp ==
  (hook.mounted /\ hook.event = "reconnect" /\ Stale)
    ~> (~Stale \/ ~hook.mounted \/ hook.event \in {"token", "close"})

\* The close handler of transport i runs in this step.
ClosureHandled(i) ==
  /\ hook.socks[i].readyState # "CLOSED" /\ hook'.socks[i].readyState = "CLOSED"
  /\ hook.socks[i].onclose /\ hook.mountedRef

\* C12: the retry counter never exceeds 3, and a closure that finds it at 3
\* schedules nothing: no timer is pending afterwards, the counter stays 3, no
\* transport is current and none is created.
C12_AtMostThreeAttempts ==
  /\ [](hook.attempts <= 3)
  /\ [][\A i \in 1..Len(hook.socks) :
          (ClosureHandled(i) /\ hook.attempts = 3) =>
            /\ ~hook'.timer.pending /\ hook'.attempts = 3
            /\ hook'.wsRef = 0 /\ Len(hook'.socks) = Len(hook.socks)]_vars

C12_Witness ==
  /\ hook.event = "close" /\ hook.code = 1006 /\ hook.attempts = 3
  /\ Len(hook.socks) = 4 /\ ~hook.timer.pending /\ hook.wsRef = 0

\* C13: a closure that schedules a reconnection makes it the k-th consecutive
\* attempt (k = 1, 2, 3) and sets its delay to 3000 ms times k.
Scheduled == hook'.timer.pending /\ hook'.timer # hook.timer

C13_DelayIsBaseTimesAttempt ==
  [][Scheduled =>
       /\ hook'.attempts = hook.attempts + 1 /\ hook'.attempts \in 1..3
       /\ hook'.timer.delay = 3000 * hook'.attempts]_vars

C13_Witness ==
  hook.timer.pending /\ hook.timer.delay = 9000 /\ hook.attempts = 3

\* C14: a closure with code 1000 schedules no reconnection and creates no
\* transport, whatever the retry counter is; afterwards no timer is pending and no
\* transport is current.
C14_CleanClosureNeverReconnects ==
  /\ []((hook.event = "close" /\ hook.code = 1000) =>
          (~hook.timer.pending /\ hook.wsRef = 0))
  /\ [][\A i \in 1..Len(hook.socks) :
          (ClosureHandled(i) /\ hook'.code = 1000) =>
            /\ hook'.timer = hook.timer /\ hook'.attempts = hook.attempts
            /\ Len(hook'.socks) = Len(hook.socks)]_vars

C14_Witness ==
  /\ hook.event = "close" /\ hook.code = 1000 /\ hook.attempts = 1
  /\ ~hook.timer.pending

\* C15: teardown closes every connecting or open transport with code 1000 and
\* cancels the reconnection timer; after it no timer is pending, no transport is
\* connecting or open, every transport still closing was closed with 1000 and has
\* no close handler, and no step schedules a retry or creates a transport.
Live(sock) == sock.readyState \in {"CONNECTING", "OPEN"}

C15_TeardownClosesCleanlyForGood ==
  /\ [](~hook.mounted =>
          /\ ~hook.timer.pending /\ hook.wsRef = 0
          /\ \A i \in 1..Len(hook.socks) :
               /\ ~Live(hook.socks[i])
               /\ hook.socks[i].readyState = "CLOSING" =>
                    (hook.socks[i].closeCode = 1000 /\ ~hook.socks[i].onclose))
  /\ [][(hook.mounted /\ ~hook'.mounted) =>
          \A i \in 1..Len(hook.socks) :
            Live(hook.socks[i]) =>
              (hook'.socks[i].readyState = "CLOSING" /\ hook'.socks[i].closeCode = 1000)]_vars
  /\ [][~hook.mounted =>
          /\ hook'.timer = hook.timer /\ hook'.attempts = hook.attempts
          /\ Len(hook'.socks) = Len(hook.socks)]_vars

\* Torn down while Open, after a change of credential; the transport has closed
\* since and nothing was scheduled.
C15_Witness ==
  /\ ~hook.mounted /\ hook.isConnected /\ hook.logins > 0
  /\ hook.socks[Len(hook.socks)].closeCode = 1000
  /\ hook.socks[Len(hook.socks)].readyState = "CLOSED"
  /\ ~hook.timer.pending /\ hook.attempts = 0

\* C16: a connection whose token is absent, invalid or names a user that is not
\* stored is never in the registry and is never sent anything; its rejection closes
\* the transport, if it is still open, with code 1008 and reason 'Token required',
\* 'Invalid token' or 'User not found', and a rejected transport is never open.
Unverified(ws) == ws.pc # "none" /\ (ws.token \in {"none", "bad"} \/ ws.token \notin users)

RejectReason(token) ==
  IF token = "none" THEN "Token required"
  ELSE IF token = "bad" THEN "Invalid token" ELSE "User not found"

C16_UnverifiedConnectionIsRejected ==
  /\ [](\A c \in Conns :
          Unverified(conn[c]) =>
            /\ ~InRegistry(c) /\ inbox[c] = <<>>
            /\ conn[c].pc \in {"lookup", "rejected"}
            /\ conn[c].pc = "rejected" => conn[c].readyState # "OPEN")
  /\ [][\A c \in Conns :
          (Unverified(conn'[c]) /\ conn[c].pc # "rejected" /\ conn'[c].pc = "rejected"
             /\ (conn[c].pc = "none" \/ conn[c].readyState = "OPEN")) =>
            /\ conn'[c].readyState = "CLOSING" /\ conn'[c].closeCode = 1008
            /\ conn'[c].closeReason = RejectReason(conn'[c].token)]_vars

C16_Witness ==
  /\ conn["c1"].pc = "rejected" /\ conn["c1"].token = "u3"
  /\ conn["c1"].closeCode = 1008 /\ conn["c1"].closeReason = "User not found"
  /\ conn["c2"].pc = "rejected" /\ conn["c2"].token = "bad"
  /\ conn["c2"].closeCode = 1008 /\ conn["c2"].closeReason = "Invalid token"
  /\ clients = <<>> /\ inbox["c1"] = <<>> /\ inbox["c2"] = <<>>

\* C17: the step that completes the handshake of a verified connection registers
\* it under the user id of its token and, the transport being open, sends it the
\* CONNECTED acknowledgement; whatever a connection has received starts with that
\* acknowledgement and holds it exactly once.
Acks(c) == {i \in 1..Len(inbox[c]) : inbox[c][i].type = "CONNECTED"}

C17_RegisteredAndAcknowledgedFirst ==
  /\ [](\A c \in Conns :
          inbox[c] # <<>> =>
            /\ conn[c].pc = "registered" /\ conn[c].userId = conn[c].token
            /\ Acks(c) = {1})
  /\ [][\A c \in Conns :
          (conn[c].pc = "lookup" /\ conn'[c].pc = "registered") =>
            /\ conn'[c].userId = conn[c].token /\ conn[c].token \in users
            /\ conn[c].token \in DOMAIN clients' /\ c \in clients'[conn[c].token]
            /\ conn[c].readyState = "OPEN" => inbox'[c] = <<Connected(conn[c].token)>>]_vars

C17_Witness ==
  /\ conn["c3"].pc = "registered" /\ conn["c3"].userId = "u2"
  /\ "u2" \in DOMAIN clients /\ "c3" \in clients["u2"]
  /\ inbox["c3"] = <<Connected("u2"), TaskEvent("TASK_UPDATED", 1)>>

\* C18: every user id in the registry has at least one connection, and a step that
\* takes the last connection of a user out of the registry takes the user's entry
\* out with it.
C18_NoEmptySetRetained ==
  /\ [](\A u \in DOMAIN clients : clients[u] # {})
  /\ [][\A u \in DOMAIN clients :
          (\E c \in Conns : clients[u] = {c} /\ ~(u \in DOMAIN clients' /\ c \in clients'[u]))
            => u \notin DOMAIN clients']_vars

C18_Witness ==
  /\ clients = <<>>
  /\ conn["c1"].pc = "registered" /\ conn["c1"].closeReason = "peer"
  /\ conn["c2"].pc = "registered" /\ conn["c2"].closeReason = "error"

\* C19: what a connection has received is never reordered: a step leaves the
\* messages already delivered to it in place and delivers at most one more, after
\* them, and the connections served in one step get the same message (one send
\* call per step), so events sent to a user one after the other reach each of the
\* user's connections in that order.
Delivered(c) == inbox'[c] # inbox[c]

C19_DeliveryKeepsSendOrder ==
  [][\A c \in Conns :
       Delivered(c) =>
         /\ Len(inbox'[c]) = Len(inbox[c]) + 1 /\ IsPrefix(inbox[c], inbox'[c])
         /\ \A d \in Conns :
              Delivered(d) => inbox'[d][Len(inbox'[d])] = inbox'[c][Len(inbox'[c])]]_vars

C19_Witness ==
  /\ inbox["c2"] = <<Connected("u2"), TaskEvent("TASK_UPDATED", 1), TaskEvent("TASK_DELETED", 1)>>
  /\ inbox["c3"] = inbox["c2"]

\* The message connection c receives in this step, if any.
Gets(c, m) == inbox'[c] = Append(inbox[c], m)

\* C20: a connection receives a task event only if it is registered under the
\* assignee of that task: no connection of another user receives it.
C20_EventsReachOnlyTheAssignee ==
  [][\A c \in Conns, tid \in TaskIds :
       \A type \in {"TASK_CREATED", "TASK_UPDATED", "TASK_DELETED"} :
         Gets(c, TaskEvent(type, tid)) =>
           /\ tid \in DOMAIN tasks'
           /\ conn[c].userId = tasks'[tid].assignedTo
           /\ conn[c].userId \in DOMAIN clients /\ c \in clients[conn[c].userId]]_vars

\* C21: when createTask answers 201, the task it created has status 'To Do',
\* whether or not the request body named a status, and its audit history is the
\* single 'created' entry naming the assignee.
C21_CreatedTaskIsToDoWithOneEntry ==
  [][(Answered /\ last'.kind = "create" /\ last'.code = 201) =>
       LET t == tasks'[last'.tid]
       IN /\ t.status = "To Do"
          /\ Len(t.auditHistory) = 1
          /\ t.auditHistory[1].action = "created"
          /\ t.auditHistory[1].user = last'.ask.actor
          /\ t.auditHistory[1].description =
               <<"Task created and assigned to", last'.ask.target>>]_vars

C21_Witness ==
  /\ last.kind = "create" /\ last.code = 201 /\ last.ask.has = {"status"}
  /\ tasks[last.tid].status = "To Do" /\ Len(tasks[last.tid].auditHistory) = 1

\* A successful save of the updateTask in frame s, the entries it appended to the
\* stored audit history, and the fields whose stored value it changed.
UpdateSaved(s) ==
  reqs[s].kind = "update" /\ reqs[s].pc = "save" /\ reqs'[s].pc = "notify"

NewEntries(tid) == Suffix(tasks'[tid].auditHistory, Len(tasks[tid].auditHistory))
Changed(tid, field) == tasks'[tid][field] # tasks[tid][field]
FieldOrder == <<"title", "description", "dueDate", "priority", "status">>
ChangedFields(tid) == SelectSeq(FieldOrder, LAMBDA field : Changed(tid, field))
Count(b) == IF b THEN 1 ELSE 0

\* C22: an update whose patch holds only a priority q different from the task's
\* priority p appends exactly two entries: priority_changed with old value p and
\* new value q, then 'updated' with the description 'Updated: priority'.
C22_PriorityUpdateAppendsTwoEntries ==
  [][\A s \in Slots :
       LET f == reqs[s]
       IN (UpdateSaved(s) /\ f.patch.has = {"priority"}
             /\ f.patch.priority \in PriorityValues \ {tasks[f.tid].priority}) =>
            /\ tasks'[f.tid].priority = f.patch.priority
            /\ Len(NewEntries(f.tid)) = 2
            /\ LET e == NewEntries(f.tid)[1]
               IN /\ e.action = "priority_changed" /\ e.field = "priority"
                  /\ e.oldValue = tasks[f.tid].priority /\ e.newValue = f.patch.priority
                  /\ e.user = f.actor
            /\ LET e == NewEntries(f.tid)[2]
               IN /\ e.action = "updated" /\ e.user = f.actor
                  /\ e.description = <<"Updated:", "priority">>]_vars

C22_Witness ==
  /\ last.kind = "update" /\ last.code = 200 /\ last.ask.has = {"priority"}
  /\ tasks[1].priority = "High" /\ Len(tasks[1].auditHistory) = 3
  /\ tasks[1].auditHistory[2].action = "priority_changed"
  /\ tasks[1].auditHistory[2].oldValue = "Medium"
  /\ tasks[1].auditHistory[3].action = "updated"

\* C25: a successful update appends [priority changed] + [status changed] + [some
\* of title, description, dueDate, priority, status changed] entries: the dedicated
\* entries, with the old and the new value, then the one 'updated' entry; nothing
\* when no scalar field changed.
C25_AuditEntriesPerUpdate ==
  [][\A s \in Slots :
       UpdateSaved(s) =>
         LET tid == reqs[s].tid
             new == NewEntries(tid)
             np == Count(Changed(tid, "priority"))
             ns == Count(Changed(tid, "status"))
             any == Count(ChangedFields(tid) # <<>>)
         IN /\ Len(new) = np + ns + any
            /\ Changed(tid, "priority") =>
                 /\ new[1].action = "priority_changed"
                 /\ new[1].oldValue = tasks[tid].priority
                 /\ new[1].newValue = tasks'[tid].priority
            /\ Changed(tid, "status") =>
                 /\ new[np + 1].action = "status_changed"
                 /\ new[np + 1].oldValue = tasks[tid].status
                 /\ new[np + 1].newValue = tasks'[tid].status
            /\ any = 1 => new[Len(new)].action = "updated"]_vars

\* C26: when a successful update changes a scalar field, its 'updated' entry lists
\* exactly the fields whose stored value changed, in the order title, description,
\* dueDate, priority, status; a field of the patch whose value is the stored one
\* is not listed.
C26_SummaryListsChangedFieldsInOrder ==
  [][\A s \in Slots :
       (UpdateSaved(s) /\ ChangedFields(reqs[s].tid) # <<>>) =>
         LET new == NewEntries(reqs[s].tid)
             summaries == {i \in 1..Len(new) : new[i].action = "updated"}
         IN /\ summaries = {Len(new)}
            /\ new[Len(new)].description = <<"Updated:">> \o ChangedFields(reqs[s].tid)]_vars

\* C27: a successful update whose patch holds tags stores exactly those tags; when
\* the patch holds nothing else no audit entry is appended, and no entry an update
\* appends mentions tags.
C27_TagsReplacedWithoutAudit ==
  [][\A s \in Slots :
       (UpdateSaved(s) /\ "tags" \in reqs[s].patch.has) =>
         LET new == NewEntries(reqs[s].tid)
         IN /\ tasks'[reqs[s].tid].tags = reqs[s].patch.tags
            /\ reqs[s].patch.has = {"tags"} => new = <<>>
            /\ \A i \in 1..Len(new) :
                 "tags" \notin SeqRange(new[i].description) /\ new[i].field # "tags"]_vars

C27_Witness ==
  /\ last.kind = "update" /\ last.code = 200 /\ last.ask.has = {"tags"}
  /\ tasks[1].tags = <<"y">> /\ tasks[1].status = "Completed"
  /\ Len(tasks[1].auditHistory) = 3
  /\ LastEntry(1).description = <<"Updated:", "status">>

\* C28: the save of deleteTask sets isDeleted of its task and changes nothing else
\* in the store: every other field of the task, its audit history included, and
\* every other task stay as they were, whatever requests overlap.
C28_SoftDeleteSetsOnlyTheFlag ==
  [][\A s \in Slots :
       (reqs[s].kind = "deleteTask" /\ reqs[s].pc = "save" /\ Acts(s)) =>
         /\ ~tasks[reqs[s].tid].isDeleted \/ tasks' = tasks
         /\ tasks' = [tasks EXCEPT ![reqs[s].tid] = [@ EXCEPT !.isDeleted = TRUE]]]_vars

C28_Witness ==
  /\ last.kind = "deleteTask" /\ last.code = 200
  /\ tasks[1].isDeleted /\ tasks[1].status = "Completed"
  /\ Len(tasks[1].auditHistory) = 3 /\ tasks[1].completedAt > 0

\* C23: an update, soft delete, comment, attachment upload or attachment removal
\* that arrives for a task that does not exist or is not assigned to its actor is
\* answered 404 'Task not found or access denied' at once: the handler goes no
\* further, the store is unchanged and nothing is pushed.
TaskOps == {"update", "deleteTask", "comment", "attach", "detach"}
NotOwn(actor, tid) == tid \notin DOMAIN tasks \/ tasks[tid].assignedTo # actor

C23_NotOwnedIsNotFound ==
  [][ops' # ops =>
       /\ \A s \in Slots :
            (Acts(s) /\ reqs'[s].kind \in TaskOps) => ~NotOwn(reqs'[s].actor, reqs'[s].tid)
       /\ (Answered /\ last'.kind \in TaskOps /\ NotOwn(last'.ask.actor, last'.tid)) =>
            /\ last'.code = 404 /\ last'.message = "Task not found or access denied"
            /\ tasks' = tasks /\ inbox' = inbox /\ reqs' = reqs]_vars

C23_Witness ==
  /\ last.kind = "comment" /\ last.code = 404 /\ last.ask.actor = "u1"
  /\ last.tid = 1 /\ 1 \in DOMAIN tasks /\ tasks[1].assignedTo = "u2"
  /\ ~tasks[1].isDeleted /\ tasks[1].comments = <<>>

\* C24: a task event is pushed only by a handler that has come back from its
\* save: the step that delivers one is the step after the persistence write of
\* some request and writes nothing itself, a handler gets to that step only from
\* its save, and a step that answers with an error delivers nothing.
Pushing(s) == reqs[s].pc = "notify" /\ Acts(s)

C24_PushFollowsPersistence ==
  [][/\ (\E c \in Conns : Delivered(c)) =>
          ((\E s \in Slots : Pushing(s)) /\ tasks' = tasks)
     /\ \A s \in Slots :
          (Acts(s) /\ reqs'[s].pc = "notify") => reqs[s].pc \in {"save", "reassign"}
     /\ (Answered /\ last'.code \notin {200, 201}) => inbox' = inbox]_vars

C24_Witness ==
  /\ last.kind = "update" /\ last.code = 400
  /\ tasks[1].status = "Completed" /\ Len(tasks[1].auditHistory) = 3
  /\ inbox["c2"] = <<Connected("u2"), TaskEvent("TASK_UPDATED", 1)>>

\* C29: the reassignments of a user deletion are committed one by one. When the
\* save of the k-th task fails, the request is answered with an error and writes
\* nothing more: tasks 1..k-1 stay with reassignTo, each with its 'reassigned'
\* entry as last entry and its TASK_CREATED event delivered to every connection
\* of reassignTo; tasks k.. are as they were read, still with the original user,
\* and nothing is pushed for them; and the user is still in the store.
SaveFailed(s) ==
  reqs[s].kind = "deleteUser" /\ reqs[s].pc = "reassign" /\ Answered /\ last'.code = 500

Notified(userId, tid) ==
  \A c \in clients[userId] :
    \E j \in 1..Len(inbox'[c]) : inbox'[c][j] = TaskEvent("TASK_CREATED", tid)

C29_FailedSaveKeepsEarlierReassignments ==
  [][\A s \in Slots : SaveFailed(s) =>
       LET f == reqs[s]
       IN /\ reqs'[s] = Idle
          /\ users' = users /\ f.target \in users'
          /\ inbox' = inbox
          /\ \A i \in 1..Len(f.found) :
               LET t == f.found[i]
               IN IF i < f.idx
                    THEN /\ tasks'[t].assignedTo = f.reassignTo
                         /\ tasks'[t].auditHistory
                              = Append(f.docs[i].auditHistory,
                                       tasks'[t].auditHistory[Len(tasks'[t].auditHistory)])
                         /\ tasks'[t].auditHistory[Len(tasks'[t].auditHistory)].action
                              = "reassigned"
                         /\ Notified(f.reassignTo, t)
                    ELSE /\ tasks'[t] = f.docs[i]
                         /\ tasks'[t].assignedTo = f.target]_vars

C29_Witness ==
  /\ last.kind = "deleteUser" /\ last.code = 500
  /\ last.ask.target = "u2" /\ last.ask.reassignTo = "u1"
  /\ "u2" \in users
  /\ tasks[1].assignedTo = "u1" /\ LastEntry(1).action = "reassigned"
  /\ tasks[2].assignedTo = "u2" /\ Len(tasks[2].auditHistory) = 1
  /\ inbox["c1"] = <<Connected("u1"), TaskEvent("TASK_CREATED", 1)>>

\* C30: the sweep terminates a transport only if its liveness flag is false when
\* the sweep runs, and otherwise clears the flag and probes it; the pong of a
\* connection sets its flag back to true; so a connection with no probe left
\* unanswered when the sweep runs is not terminated by it.
Answers(c) ==
  /\ conn[c].probed /\ ~conn'[c].probed
  /\ conn'[c].readyState = "OPEN" /\ sends' = sends

Connection(c) == conn[c].pc = "registered" /\ conn[c].readyState = "OPEN"

C30_AnsweringConnectionSurvivesSweep ==
  [][\A c \in Conns :
       /\ (SweepStep /\ InWss(c)) =>
            IF conn[c].isAlive = "false"
              THEN /\ conn'[c].readyState = "CLOSING"
                   /\ conn[c].readyState = "OPEN" => conn'[c].closeReason = "terminated"
              ELSE /\ conn'[c].isAlive = "false"
                   /\ conn'[c].readyState = conn[c].readyState
                   /\ conn'[c].closeReason = conn[c].closeReason
                   /\ conn[c].readyState = "OPEN" => conn'[c].probed
       /\ (Connection(c) /\ Answers(c)) => conn'[c].isAlive = "true"
       /\ (SweepStep /\ Connection(c) /\ ~conn[c].probed) =>
            /\ conn'[c].readyState = "OPEN" /\ conn'[c].probed
            /\ clients' = clients]_vars

C30_Witness ==
  /\ sends = 2 /\ conn["c3"].pc = "none"
  /\ conn["c1"].pc = "registered" /\ conn["c1"].readyState = "OPEN"
  /\ conn["c1"].isAlive = "false" /\ conn["c1"].probed
  /\ conn["c2"].readyState = "CLOSING" /\ conn["c2"].closeReason = "terminated"

\* C31: the open event of a transport sets the retry counter to 0, so the counter
\* is 0 for as long as that transport is open, and the abnormal closure of a
\* transport that had opened is scheduled as attempt 1 with the base delay,
\* whatever the counter had reached before the transport opened.
Opens(i) ==
  hook.socks[i].readyState = "CONNECTING" /\ hook'.socks[i].readyState = "OPEN"

C31_OpenResetsRetryCounter ==
  /\ [][\A i \in 1..Len(hook.socks) :
          /\ Opens(i) => (hook'.attempts = 0 /\ hook'.isConnected)
          /\ (ClosureHandled(i) /\ hook.socks[i].readyState = "OPEN"
                /\ hook'.code # 1000 /\ hook.socks[i].token # "") =>
               /\ hook'.attempts = 1 /\ hook'.timer.pending
               /\ hook'.timer.delay = BaseDelay]_vars
  /\ [](\A i \in 1..Len(hook.socks) :
          (hook.socks[i].readyState = "OPEN" /\ hook.socks[i].onclose) => hook.attempts = 0)

\* The fourth transport, after three that closed on their own, opened and was
\* lost: its closure is attempt 1 again.
C31_Witness ==
  /\ Len(hook.socks) = 4 /\ hook.event = "close" /\ hook.code = 1006
  /\ hook.attempts = 1 /\ hook.timer.pending /\ hook.timer.delay = 3000
  /\ \A i \in 1..4 : hook.socks[i].onclose /\ hook.socks[i].closeCode = 0
  /\ hook.committed = 1 /\ hook.view = 1

\* C32: a frame handled by ws.onmessage is handed to the caller's handler exactly
\* when its text parses to a message whose type is neither PONG nor CONNECTED;
\* the handler gets the frames in the order they arrived; a PONG or CONNECTED is
\* never handed; and a frame that is not handed (malformed ones included) changes
\* nothing: the transport stays open and current and nothing is scheduled.
Handled(i) ==
  /\ hook.socks[i].readyState = "OPEN" /\ hook'.socks[i].readyState = "OPEN"
  /\ hook.socks[i].queue # <<>> /\ hook'.socks[i].queue = Tail(hook.socks[i].queue)

ForCaller(text) ==
  /\ ~JSONparse(text).threw /\ ~JSONparse(text).isNull
  /\ JSONparse(text).data.type \notin {"PONG", "CONNECTED"}

C32_InboundEventsReachTheCaller ==
  /\ [][\A i \in 1..Len(hook.socks) :
          Handled(i) =>
            LET text == Head(hook.socks[i].queue)
            IN IF ForCaller(text)
                 THEN hook'.handed = Append(hook.handed, JSONparse(text).data)
                 ELSE hook' = [hook EXCEPT !.socks[i].queue = Tail(@)]]_vars
  /\ [][IsPrefix(hook.handed, hook'.handed)]_vars
  /\ [](\A j \in 1..Len(hook.handed) : hook.handed[j].type \notin {"PONG", "CONNECTED"})

\* Two events were handed in the order they arrived, a TASK_DELETED first; the
\* transport is still open and current.
C32_Witness ==
  /\ hook.handed = <<TaskEvent("TASK_DELETED", 1), TaskEvent("TASK_UPDATED", 1)>>
  /\ hook.wsRef = 1 /\ hook.socks[1].readyState = "OPEN" /\ hook.socks[1].queue = <<>>
  /\ hook.isConnected /\ hook.view = 0

\* C33: no non-deleted task is assigned to a user that deleteUser removed: every
\* non-deleted task in the store is assigned to a stored user.
C33_NoTaskLeftWithDeletedUser ==
  \A t \in DOMAIN tasks : ~tasks[t].isDeleted => tasks[t].assignedTo \in users

\* C34: a connection that is in the registry with its transport closed is
\* eventually not in the registry, whenever the transport closed (during the
\* lookup of the handshake included).
C34_ClosedConnectionLeavesRegistry ==
  \A c \in Conns : (InRegistry(c) /\ conn[c].readyState = "CLOSED") ~> ~InRegistry(c)

\* C35: every task in the store has an audit history that begins with its
\* 'created' entry: the history is never empty and nothing precedes 'created'.
C35_HistoryBeginsWithCreated ==
  \A t \in DOMAIN tasks :
    tasks[t].auditHistory # <<>> /\ tasks[t].auditHistory[1].action = "created"

\* C36: a soft-deleted task is frozen: no step changes any field of a task that
\* is soft-deleted in the store, so isDeleted never returns to false and
\* assignedTo, auditHistory and every other field stay as they were.
C36_SoftDeletedTaskIsFrozen ==
  [][\A t \in DOMAIN tasks : tasks[t].isDeleted => tasks'[t] = tasks[t]]_vars

C38_AtMostOneLiveTransport ==
  \A i, j \in 1..Len(hook.socks) :
    (Live(hook.socks[i]) /\ Live(hook.socks[j])) => i = j

\* The credential changed while a transport was open: that one is closing with
\* code 1000 and the transport for the new credential is the only live one.
C38_Witness ==
  /\ Len(hook.socks) = 2 /\ hook.wsRef = 2
  /\ hook.socks[1].readyState = "CLOSING" /\ hook.socks[1].closeCode = 1000
  /\ hook.socks[1].token = "t1" /\ hook.socks[2].token = "t2"
  /\ hook.socks[2].readyState = "CONNECTING"

\* C39: with one request at a time, in every state of the store a task has
\* completedAt set exactly when its status is Completed.
C39_CompletedAtIffCompleted ==
  \A t \in DOMAIN tasks : (tasks[t].completedAt # 0) <=> (tasks[t].status = "Completed")

\* Task 1 was completed by an update and stamped, and a later update that asked
\* for another status was refused; task 2 is 'To Do' without completedAt.
C39_Witness ==
  /\ DOMAIN tasks = {1, 2}
  /\ tasks[1].status = "Completed" /\ tasks[1].completedAt = 1
  /\ tasks[2].status = "To Do" /\ tasks[2].completedAt = 0
  /\ last.kind = "update" /\ last.code = 400 /\ last.tid = 1

\* C40: on every registry the server reaches, running the disconnection cleanup
\* for a connection a second time gives the registry of the first run; the first
\* run takes that connection out of the set of its user (and the entry with it
\* when the set becomes empty) and leaves every other entry as it is. The close
\* event that follows an error event therefore leaves the registry unchanged.
Once(c, u) == handleDisconnection(clients, c, u)

C40_UnregisteringIsIdempotent ==
  /\ [](\A c \in Conns, u \in UserIds \cup {Undefined} :
          /\ handleDisconnection(Once(c, u), c, u) = Once(c, u)
          /\ \A v \in DOMAIN clients :
               IF v = u
                 THEN IF clients[v] \ {c} = {}
                        THEN v \notin DOMAIN Once(c, u)
                        ELSE v \in DOMAIN Once(c, u) /\ Once(c, u)[v] = clients[v] \ {c}
                 ELSE v \in DOMAIN Once(c, u) /\ Once(c, u)[v] = clients[v]
          /\ DOMAIN Once(c, u) \subseteq DOMAIN clients)
  /\ [][\A c \in Conns :
          (conn[c].closeReason = "error" /\ conn[c].readyState = "CLOSING"
             /\ conn'[c].readyState = "CLOSED") => clients' = clients]_vars

\* Device c1 of u2 had an error event and then its close event; device c2 is
\* still registered.
C40_Witness ==
  /\ conn["c1"].closeReason = "error" /\ conn["c1"].readyState = "CLOSED"
  /\ conn["c1"].userId = "u2"
  /\ DOMAIN clients = {"u2"} /\ clients["u2"] = {"c2"}
  /\ conn["c2"].readyState = "OPEN"

====
